---- MODULE Spec2Model ----
(***************************************************************************)
(* A model of the SAS parser pipeline of this repository:                  *)
(*   text -> parse tree (SASParser.parse, Lark) -> SASTransformer          *)
(*        -> Program AST (ast_nodes.py) -> LineageExtractor -> lineage map *)
(*                                                                         *)
(* Python values are records tagged with `kind`: the AST dataclasses of    *)
(* ast_nodes.py under their class names, and the builtin values they hold  *)
(* ("str", "int", "list", "tuple", "None").  A str is a sequence of        *)
(* one-character strings, so that rendering (str()) is concatenation and   *)
(* sorted() is a comparison of code points.                                *)
(***************************************************************************)
EXTENDS Integers, Sequences, FiniteSets, TLC

VARIABLES
    tree,       \* SASParser.parse: the parse tree handed to the transformer
    ast,        \* the Program AST returned by transform (None before)
    lineage,    \* extract_lineage: the local dict `lineage`
    metadata,   \* extract_lineage: the local `metadata` of the last DATA step
    idx,        \* extract_lineage: how many of program.statements were visited
    pc,         \* position of the pipeline
    call,       \* the transformer callback (or __str__) applied, its arguments
    result,     \* what that callback returned
    parsers,    \* the SASParser instances: their fields
    frames,     \* the frame of each caller of SASParser.parse
    returned    \* the (sas_code, AST) pairs the parse calls have returned

\* The variables of the transformer callbacks and of the parse sessions
rules == <<call, result>>
session == <<parsers, frames, returned>>

vars == <<tree, ast, lineage, metadata, idx, pc, call, result, parsers, frames,
          returned>>

(***************************************************************************)
(* Builtin Python values                                                   *)
(***************************************************************************)
None == [kind |-> "None"]
PyStr(cs) == [kind |-> "str", s |-> cs]
PyInt(n) == [kind |-> "int", n |-> n]
PyList(xs) == [kind |-> "list", items |-> xs]
PyTuple(xs) == [kind |-> "tuple", items |-> xs]
\* A float that a decimal numeral denotes: the fraction num/den in lowest
\* terms (equal floats are equal records)
PyFloat(num, den) == [kind |-> "float", num |-> num, den |-> den]
\* An exception leaving a callback instead of a return value
Raise(exc) == [kind |-> "Raise", exc |-> exc]

\* The elements of a sequence
Items(xs) == {xs[i] : i \in DOMAIN xs}

\* Objects without a __dict__: hasattr(x, '__dict__') is False for them.
BuiltinKinds == {"None", "str", "int", "float", "list", "tuple"}

\* The characters the model uses, in code point order (Python compares str
\* by code point).
Ascii ==
    << "\n", " ", "\"", "'", "(", ")", "*", "+", ",", "-", ".", "/",
       "0", "1", "2", "3", "4", "5", "6", "7", "8", "9",
       ";", "<", "=", ">",
       "A", "B", "C", "D", "E", "F", "G", "H", "I", "J", "K", "L", "M",
       "N", "O", "P", "Q", "R", "S", "T", "U", "V", "W", "X", "Y", "Z",
       "_",
       "a", "b", "c", "d", "e", "f", "g", "h", "i", "j", "k", "l", "m",
       "n", "o", "p", "q", "r", "s", "t", "u", "v", "w", "x", "y", "z" >>

Ord(c) == CHOOSE i \in DOMAIN Ascii : Ascii[i] = c

\* s < t on Python str: the first differing code point decides, a proper
\* prefix is smaller.
StrLess(s, t) ==
    \E k \in 1..(Len(s) + 1) :
        /\ k <= Len(t)
        /\ \A j \in 1..(k - 1) : s[j] = t[j]
        /\ (k <= Len(s) => Ord(s[k]) < Ord(t[k]))

Digits == << "0", "1", "2", "3", "4", "5", "6", "7", "8", "9" >>

\* str(n) of a non-negative int
RECURSIVE IntToStr(_)
IntToStr(n) ==
    IF n < 10 THEN << Digits[n + 1] >>
    ELSE IntToStr(n \div 10) \o << Digits[(n % 10) + 1] >>

\* The digits after the decimal point of r/den (r < den, den a divisor of a
\* power of ten)
RECURSIVE FracDigits(_, _)
FracDigits(r, den) ==
    IF r = 0 THEN << >>
    ELSE << Digits[((r * 10) \div den) + 1] >> \o FracDigits((r * 10) % den, den)

\* str(x) of a non-negative float below 1e16: repr prints the shortest
\* decimal numeral that reads back as x
FloatToStr(num, den) ==
    IntToStr(num \div den) \o << "." >>
        \o (IF num % den = 0 THEN << "0" >> ELSE FracDigits(num % den, den))

\* The str constants of the source
StrString == << "s", "t", "r", "i", "n", "g" >>
StrNumber == << "n", "u", "m", "b", "e", "r" >>
StrData == << "d", "a", "t", "a" >>
StrDataStep == << "d", "a", "t", "a", "_", "s", "t", "e", "p" >>

\* str.lower() on the characters of the model
LowerChar(c) ==
    IF Ord(c) >= Ord("A") /\ Ord(c) <= Ord("Z")
    THEN Ascii[Ord(c) + (Ord("a") - Ord("A"))]
    ELSE c

Lower(cs) == [i \in DOMAIN cs |-> LowerChar(cs[i])]

\* str.upper()
UpperChar(c) ==
    IF Ord(c) >= Ord("a") /\ Ord(c) <= Ord("z")
    THEN Ascii[Ord(c) - (Ord("a") - Ord("A"))]
    ELSE c

Upper(cs) == [i \in DOMAIN cs |-> UpperChar(cs[i])]

\* sep.join(strs)
RECURSIVE Join(_, _)
Join(sep, strs) ==
    IF strs = << >> THEN << >>
    ELSE IF Len(strs) = 1 THEN strs[1]
    ELSE strs[1] \o sep \o Join(sep, Tail(strs))

\* A str constant of the source, written as a TLA+ sequence of characters
NL == << "\n" >>
SP == << " " >>

\* int(token) of a decimal numeral
RECURSIVE int(_)
int(cs) ==
    IF cs = << >> THEN 0
    ELSE int(SubSeq(cs, 1, Len(cs) - 1)) * 10 + (Ord(cs[Len(cs)]) - Ord("0"))

RECURSIVE Gcd(_, _)
Gcd(a, b) == IF b = 0 THEN a ELSE Gcd(b, a % b)

RECURSIVE Pow10(_)
Pow10(k) == IF k = 0 THEN 1 ELSE 10 * Pow10(k - 1)

\* float(token) of a decimal numeral with one decimal point
float(cs) ==
    LET dot == CHOOSE i \in DOMAIN cs : cs[i] = "."
        num == int(SubSeq(cs, 1, dot - 1) \o SubSeq(cs, dot + 1, Len(cs)))
        den == Pow10(Len(cs) - dot)
        g == Gcd(num, den)
    IN  PyFloat(num \div g, den \div g)

(***************************************************************************)
(* ast_nodes.py: the dataclasses                                           *)
(***************************************************************************)
DatasetRef(library, dataset) ==
    [kind |-> "DatasetRef", library |-> library, dataset |-> dataset]
Variable(name) == [kind |-> "Variable", name |-> name]
Literal(value, data_type) ==
    [kind |-> "Literal", value |-> value, data_type |-> data_type]
BinaryOperation(left, operator, right) ==
    [kind |-> "BinaryOperation", left |-> left, operator |-> operator,
     right |-> right]
Assignment(variable, expression) ==
    [kind |-> "Assignment", variable |-> variable, expression |-> expression]
Condition(expression) == [kind |-> "Condition", expression |-> expression]
IfStatement(condition, then_statement) ==
    [kind |-> "IfStatement", condition |-> condition,
     then_statement |-> then_statement]
DatasetOption(name, value) ==
    [kind |-> "DatasetOption", name |-> name, value |-> value]
SetStatement(dataset, options) ==
    [kind |-> "SetStatement", dataset |-> dataset, options |-> options]
MergeStatement(datasets, options) ==
    [kind |-> "MergeStatement", datasets |-> datasets, options |-> options]
ByStatement(variables) == [kind |-> "ByStatement", variables |-> variables]
WhereClause(condition) == [kind |-> "WhereClause", condition |-> condition]
DataStep(output_dataset, set_statement, merge_statement, by_statement, where_clause, statements) ==
    [kind |-> "DataStep", output_dataset |-> output_dataset,
     set_statement |-> set_statement, merge_statement |-> merge_statement,
     by_statement |-> by_statement, where_clause |-> where_clause,
     statements |-> statements]
ProcStep(procedure, dataset, options, statements) ==
    [kind |-> "ProcStep", procedure |-> procedure, dataset |-> dataset,
     options |-> options, statements |-> statements]
KeepStatement(variables) == [kind |-> "KeepStatement", variables |-> variables]
DropStatement(variables) == [kind |-> "DropStatement", variables |-> variables]
RenameStatement(renames) == [kind |-> "RenameStatement", renames |-> renames]
DoBlock(statements) == [kind |-> "DoBlock", statements |-> statements]
OutputStatement(dataset) == [kind |-> "OutputStatement", dataset |-> dataset]
InputStatement(variables, input_specs) ==
    [kind |-> "InputStatement", variables |-> variables,
     input_specs |-> input_specs]
PutStatement(variables, output_specs) ==
    [kind |-> "PutStatement", variables |-> variables,
     output_specs |-> output_specs]
InfileStatement(filename, options) ==
    [kind |-> "InfileStatement", filename |-> filename, options |-> options]
FileStatement(filename, options) ==
    [kind |-> "FileStatement", filename |-> filename, options |-> options]
FormatStatement(format_assignments) ==
    [kind |-> "FormatStatement", format_assignments |-> format_assignments]
InformatStatement(informat_assignments) ==
    [kind |-> "InformatStatement",
     informat_assignments |-> informat_assignments]
LabelStatement(label_assignments) ==
    [kind |-> "LabelStatement", label_assignments |-> label_assignments]
DoWhileLoop(condition, statements) ==
    [kind |-> "DoWhileLoop", condition |-> condition, statements |-> statements]
DoUntilLoop(condition, statements) ==
    [kind |-> "DoUntilLoop", condition |-> condition, statements |-> statements]
IterativeDoLoop(variable, start_value, end_value, by_value, statements) ==
    [kind |-> "IterativeDoLoop", variable |-> variable,
     start_value |-> start_value, end_value |-> end_value,
     by_value |-> by_value, statements |-> statements]
RetainStatement(variables, initial_values) ==
    [kind |-> "RetainStatement", variables |-> variables,
     initial_values |-> initial_values]
LengthStatement(length_assignments) ==
    [kind |-> "LengthStatement", length_assignments |-> length_assignments]
StopStatement == [kind |-> "StopStatement"]
DeleteStatement == [kind |-> "DeleteStatement"]
Program(statements) == [kind |-> "Program", statements |-> statements]

\* bool(x) of an Optional field: None is false, a dataclass instance is true
\* (the dataclasses define neither __bool__ nor __len__), a str or a list is
\* true when it is not empty.
Truthy(x) ==
    CASE x.kind = "None" -> FALSE
      [] x.kind = "str" -> x.s # << >>
      [] x.kind = "list" -> x.items # << >>
      [] x.kind = "tuple" -> x.items # << >>
      [] x.kind = "int" -> x.n # 0
      [] OTHER -> TRUE

\* repr(x) of a list and of what the lists of an option hold: the dataclass
\* repr of a Variable, a tuple of them
RECURSIVE Repr(_)
Repr(x) ==
    CASE x.kind = "Variable" ->
            << "V", "a", "r", "i", "a", "b", "l", "e", "(", "n", "a", "m", "e",
               "=", "'" >> \o x.name.s \o << "'", ")" >>
      [] x.kind = "tuple" ->
            << "(" >>
                \o Join(<< ",", " " >>, [i \in DOMAIN x.items |-> Repr(x.items[i])])
                \o << ")" >>
      [] x.kind = "list" ->
            << "[" >>
                \o Join(<< ",", " " >>, [i \in DOMAIN x.items |-> Repr(x.items[i])])
                \o << "]" >>

\* DatasetOption.__str__ comparing the name as it is written
DatasetOptionShapeAsWritten(x) ==
    IF /\ x.name.s \in {<< "k", "e", "e", "p" >>, << "d", "r", "o", "p" >>}
       /\ x.value.kind = "list"
    THEN "variables"
    ELSE IF /\ x.name.s = << "r", "e", "n", "a", "m", "e" >>
            /\ x.value.kind = "list"
    THEN "pairs"
    ELSE "value"

\* DatasetOption.__str__: the branch that returns
DatasetOptionShape(x) ==
    IF /\ Lower(x.name.s) \in {<< "k", "e", "e", "p" >>, << "d", "r", "o", "p" >>}
       /\ x.value.kind = "list"
    THEN "variables"
    ELSE IF /\ Lower(x.name.s) = << "r", "e", "n", "a", "m", "e" >>
            /\ x.value.kind = "list"
    THEN "pairs"
    ELSE "value"

\* str(x): the __str__ of each class, str of the builtins
RECURSIVE ToStr(_)
ToStr(x) ==
    CASE x.kind = "str" -> x.s
      [] x.kind = "int" -> IntToStr(x.n)
      [] x.kind = "None" -> << "N", "o", "n", "e" >>
      [] x.kind = "list" -> Repr(x)
      [] x.kind = "DatasetRef" ->
            IF Truthy(x.library)
            THEN ToStr(x.library) \o << "." >> \o ToStr(x.dataset)
            ELSE ToStr(x.dataset)
      [] x.kind = "Variable" -> ToStr(x.name)
      [] x.kind = "Literal" ->
            IF x.data_type = PyStr(StrString)
            THEN << "\"" >> \o ToStr(x.value) \o << "\"" >>
            ELSE ToStr(x.value)
      [] x.kind = "BinaryOperation" ->
            << "(" >> \o ToStr(x.left) \o << " " >> \o ToStr(x.operator)
                \o << " " >> \o ToStr(x.right) \o << ")" >>
      [] x.kind = "Condition" -> ToStr(x.expression)
      [] x.kind = "WhereClause" ->
            << "W", "H", "E", "R", "E", " " >> \o ToStr(x.condition)
                \o << ";" >>
      [] x.kind = "float" -> FloatToStr(x.num, x.den)
      [] x.kind = "Assignment" ->
            ToStr(x.variable) \o << " ", "=", " " >> \o ToStr(x.expression)
                \o << ";" >>
      [] x.kind = "IfStatement" ->
            << "I", "F", " " >> \o ToStr(x.condition)
                \o << " ", "T", "H", "E", "N", " " >> \o ToStr(x.then_statement)
      [] x.kind = "DatasetOption" ->
            IF DatasetOptionShape(x) = "variables"
            THEN ToStr(x.name) \o << "=" >>
                     \o Join(SP, [i \in DOMAIN x.value.items |->
                                     ToStr(x.value.items[i])])
            ELSE IF DatasetOptionShape(x) = "pairs"
            THEN ToStr(x.name) \o << "=", "(" >>
                     \o Join(SP, [i \in DOMAIN x.value.items |->
                                     ToStr(x.value.items[i].items[1])
                                         \o << "=" >>
                                         \o ToStr(x.value.items[i].items[2])])
                     \o << ")" >>
            ELSE ToStr(x.name) \o << "=" >> \o ToStr(x.value)
      [] x.kind = "SetStatement" ->
            IF Truthy(x.options)
            THEN << "S", "E", "T", " " >> \o ToStr(x.dataset) \o << " ", "(" >>
                     \o Join(<< ",", " " >>,
                             [i \in DOMAIN x.options.items |->
                                 ToStr(x.options.items[i])])
                     \o << ")", ";" >>
            ELSE << "S", "E", "T", " " >> \o ToStr(x.dataset) \o << ";" >>
      [] x.kind = "MergeStatement" ->
            << "M", "E", "R", "G", "E", " " >>
                \o Join(SP, [i \in DOMAIN x.datasets.items |->
                                ToStr(x.datasets.items[i])])
                \o (IF Truthy(x.options)
                    THEN << " ", "(" >>
                             \o Join(<< ",", " " >>,
                                     [i \in DOMAIN x.options.items |->
                                         ToStr(x.options.items[i])])
                             \o << ")", ";" >>
                    ELSE << ";" >>)
      [] x.kind = "ByStatement" ->
            << "B", "Y", " " >>
                \o Join(SP, [i \in DOMAIN x.variables.items |->
                                ToStr(x.variables.items[i])])
                \o << ";" >>
      [] x.kind = "KeepStatement" ->
            << "K", "E", "E", "P", " " >>
                \o Join(SP, [i \in DOMAIN x.variables.items |->
                                ToStr(x.variables.items[i])])
                \o << ";" >>
      [] x.kind = "DropStatement" ->
            << "D", "R", "O", "P", " " >>
                \o Join(SP, [i \in DOMAIN x.variables.items |->
                                ToStr(x.variables.items[i])])
                \o << ";" >>
      [] x.kind = "RenameStatement" ->
            << "R", "E", "N", "A", "M", "E", " " >>
                \o Join(SP, [i \in DOMAIN x.renames.items |->
                                ToStr(x.renames.items[i].items[1]) \o << "=" >>
                                    \o ToStr(x.renames.items[i].items[2])])
                \o << ";" >>
      [] x.kind = "OutputStatement" ->
            IF Truthy(x.dataset)
            THEN << "O", "U", "T", "P", "U", "T", " " >> \o ToStr(x.dataset)
                     \o << ";" >>
            ELSE << "O", "U", "T", "P", "U", "T", ";" >>
      [] x.kind = "StopStatement" -> << "S", "T", "O", "P", ";" >>
      [] x.kind = "DeleteStatement" -> << "D", "E", "L", "E", "T", "E", ";" >>
      [] x.kind = "DoBlock" ->
            Join(NL, << << "D", "O", ";" >> >>
                         \o [i \in DOMAIN x.statements.items |->
                                << " ", " " >> \o ToStr(x.statements.items[i])]
                         \o << << "E", "N", "D", ";" >> >>)
      [] x.kind = "DoWhileLoop" ->
            Join(NL, << << "D", "O", " ", "W", "H", "I", "L", "E", " ", "(" >>
                            \o ToStr(x.condition) \o << ")", ";" >> >>
                         \o [i \in DOMAIN x.statements.items |->
                                << " ", " " >> \o ToStr(x.statements.items[i])]
                         \o << << "E", "N", "D", ";" >> >>)
      [] x.kind = "DoUntilLoop" ->
            Join(NL, << << "D", "O", " ", "U", "N", "T", "I", "L", " ", "(" >>
                            \o ToStr(x.condition) \o << ")", ";" >> >>
                         \o [i \in DOMAIN x.statements.items |->
                                << " ", " " >> \o ToStr(x.statements.items[i])]
                         \o << << "E", "N", "D", ";" >> >>)
      [] x.kind = "IterativeDoLoop" ->
            Join(NL, << << "D", "O", " " >> \o ToStr(x.variable)
                            \o << " ", "=", " " >> \o ToStr(x.start_value)
                            \o << " ", "T", "O", " " >> \o ToStr(x.end_value)
                            \o (IF Truthy(x.by_value)
                                THEN << " ", "B", "Y", " " >> \o ToStr(x.by_value)
                                ELSE << >>)
                            \o << ";" >> >>
                         \o (IF Truthy(x.statements)
                             THEN [i \in DOMAIN x.statements.items |->
                                      << " ", " " >>
                                          \o ToStr(x.statements.items[i])]
                             ELSE << >>)
                         \o << << "E", "N", "D", ";" >> >>)
      [] x.kind = "DataStep" ->
            Join(NL,
                 << IF Truthy(x.output_dataset)
                    THEN << "D", "A", "T", "A", " " >> \o ToStr(x.output_dataset)
                             \o << ";" >>
                    ELSE << "D", "A", "T", "A", ";" >> >>
                 \o (IF Truthy(x.set_statement)
                     THEN << << " ", " " >> \o ToStr(x.set_statement) >>
                     ELSE << >>)
                 \o (IF Truthy(x.merge_statement)
                     THEN << << " ", " " >> \o ToStr(x.merge_statement) >>
                     ELSE << >>)
                 \o (IF Truthy(x.by_statement)
                     THEN << << " ", " " >> \o ToStr(x.by_statement) >>
                     ELSE << >>)
                 \o (IF Truthy(x.where_clause)
                     THEN << << " ", " " >> \o ToStr(x.where_clause) >>
                     ELSE << >>)
                 \o [i \in DOMAIN x.statements.items |->
                        << " ", " " >> \o ToStr(x.statements.items[i])]
                 \o << << "R", "U", "N", ";" >> >>)
      [] x.kind = "ProcStep" ->
            Join(NL,
                 << << "P", "R", "O", "C", " " >> \o Upper(x.procedure.s)
                        \o (IF Truthy(x.dataset)
                            THEN << " ", "D", "A", "T", "A", "=" >>
                                     \o ToStr(x.dataset)
                            ELSE << >>)
                        \o (IF Truthy(x.options)
                            THEN SP \o Join(SP,
                                     [i \in DOMAIN x.options.items |->
                                         ToStr(x.options.items[i])])
                            ELSE << >>)
                        \o << ";" >> >>
                 \o [i \in DOMAIN x.statements.items |->
                        << " ", " " >> \o ToStr(x.statements.items[i])]
                 \o << << "R", "U", "N", ";" >> >>)
      [] x.kind = "Program" ->
            Join(<< "\n", "\n" >>,
                 [i \in DOMAIN x.statements.items |->
                     ToStr(x.statements.items[i])])

\* [str(x) for x in xs]
MapStr(xs) == [i \in DOMAIN xs |-> ToStr(xs[i])]

(***************************************************************************)
(* sas_transformer.py: the rules that build steps and the program          *)
(***************************************************************************)
\* The statement classes data_step names in its isinstance test
DataStepStatementKinds ==
    {"KeepStatement", "DropStatement", "RenameStatement", "InputStatement",
     "PutStatement", "InfileStatement", "FileStatement", "FormatStatement",
     "InformatStatement", "LabelStatement", "DoBlock", "DoWhileLoop",
     "DoUntilLoop", "IterativeDoLoop", "OutputStatement", "RetainStatement",
     "LengthStatement", "StopStatement", "DeleteStatement"}

\* One iteration of the loop of data_step over its children.
DataStepArgFirst(acc, arg) ==
    IF arg.kind = "DatasetRef"
    THEN [acc EXCEPT !.datasets = Append(@, arg)]
    ELSE IF arg.kind = "SetStatement"
    THEN [acc EXCEPT !.set_stmt = IF @.kind = "None" THEN arg ELSE @]
    ELSE IF arg.kind = "MergeStatement"
    THEN [acc EXCEPT !.merge_stmt = IF @.kind = "None" THEN arg ELSE @]
    ELSE IF arg.kind = "ByStatement"
    THEN [acc EXCEPT !.by_stmt = IF @.kind = "None" THEN arg ELSE @]
    ELSE IF arg.kind = "WhereClause"
    THEN [acc EXCEPT !.where_clause = IF @.kind = "None" THEN arg ELSE @]
    ELSE IF arg.kind # "None"
    THEN [acc EXCEPT !.statements = Append(@, arg)]
    ELSE acc

DataStepArg(acc, arg) ==
    IF arg.kind = "DatasetRef"
    THEN [acc EXCEPT !.datasets = Append(@, arg)]
    ELSE IF arg.kind = "SetStatement"
    THEN [acc EXCEPT !.set_stmt = arg]
    ELSE IF arg.kind = "MergeStatement"
    THEN [acc EXCEPT !.merge_stmt = arg]
    ELSE IF arg.kind = "ByStatement"
    THEN [acc EXCEPT !.by_stmt = arg]
    ELSE IF arg.kind = "WhereClause"
    THEN [acc EXCEPT !.where_clause = arg]
    ELSE IF arg.kind \in DataStepStatementKinds
    THEN [acc EXCEPT !.statements = Append(@, arg)]
    ELSE IF arg.kind # "None"
    THEN [acc EXCEPT !.statements = Append(@, arg)]
    ELSE acc

RECURSIVE DataStepLoop(_, _)
DataStepLoop(acc, args) ==
    IF args = << >> THEN acc
    ELSE DataStepLoop(DataStepArg(acc, Head(args)), Tail(args))

\* The primary output of data_step: datasets[0] if datasets else None
PrimaryDataset(datasets) ==
    IF datasets # << >> THEN datasets[1] ELSE None

data_step(args) ==
    LET acc == DataStepLoop(
                   [datasets |-> << >>, set_stmt |-> None, merge_stmt |-> None,
                    by_stmt |-> None, where_clause |-> None,
                    statements |-> << >>], args)
    IN  DataStep(PrimaryDataset(acc.datasets), acc.set_stmt, acc.merge_stmt,
                 acc.by_stmt, acc.where_clause, PyList(acc.statements))

\* ProcStepOpt comparing the name with 'data' as it is written
ProcStepOptCaseSensitive(acc, opt) ==
    IF opt.kind = "DatasetOption" /\ opt.name.s = StrData
    THEN [acc EXCEPT !.dataset = opt.value]
    ELSE [acc EXCEPT !.options = Append(@, opt)]

\* proc_step: an option of the proc_options list
ProcStepOpt(acc, opt) ==
    IF opt.kind = "DatasetOption" /\ Lower(opt.name.s) = StrData
    THEN [acc EXCEPT !.dataset = opt.value]
    ELSE [acc EXCEPT !.options = Append(@, opt)]

RECURSIVE ProcStepOpts(_, _)
ProcStepOpts(acc, opts) ==
    IF opts = << >> THEN acc
    ELSE ProcStepOpts(ProcStepOpt(acc, Head(opts)), Tail(opts))

\* One iteration of the loop of proc_step over args[1:].
ProcStepArg(acc, arg) ==
    IF arg.kind = "DatasetOption"
    THEN IF Lower(arg.name.s) = StrData
         THEN [acc EXCEPT !.dataset = arg.value]
         ELSE [acc EXCEPT !.options = Append(@, arg)]
    ELSE IF arg.kind = "list"
    THEN ProcStepOpts(acc, arg.items)
    ELSE IF arg.kind # "None"
    THEN [acc EXCEPT !.statements = Append(@, arg)]
    ELSE acc

RECURSIVE ProcStepLoop(_, _)
ProcStepLoop(acc, args) ==
    IF args = << >> THEN acc
    ELSE ProcStepLoop(ProcStepArg(acc, Head(args)), Tail(args))

proc_step(args) ==
    LET acc == ProcStepLoop(
                   [dataset |-> None, options |-> << >>, statements |-> << >>],
                   Tail(args))
    IN  ProcStep(PyStr(ToStr(args[1])), acc.dataset, PyList(acc.options),
                 PyList(acc.statements))

\* [s for s in statements if s is not None]
NotNone(s) == s.kind # "None"

program(statements) == Program(PyList(SelectSeq(statements, NotNone)))

\* do_simple(statements)
do_simple(statements) == DoBlock(PyList(SelectSeq(statements, NotNone)))

\* do_while_loop(args): args[0] is the condition
do_while_loop(args) ==
    IF args = << >> THEN Raise("IndexError")
    ELSE DoWhileLoop(args[1], PyList(SelectSeq(Tail(args), NotNone)))

\* do_until_loop(args)
do_until_loop(args) ==
    IF args = << >> THEN Raise("IndexError")
    ELSE DoUntilLoop(args[1], PyList(SelectSeq(Tail(args), NotNone)))

\* The classes do_iterative_loop names in its isinstance test
IterativeStatementKinds ==
    {"Assignment", "IfStatement", "KeepStatement", "DropStatement",
     "RenameStatement", "InputStatement", "PutStatement", "InfileStatement",
     "FileStatement", "FormatStatement", "InformatStatement", "LabelStatement",
     "DoBlock", "DoWhileLoop", "DoUntilLoop", "IterativeDoLoop"}

\* do_iterative_loop taking every child after the end value for the body
do_iterative_loop_NoBy(args) ==
    IF Len(args) < 3 THEN Raise("IndexError")
    ELSE IterativeDoLoop(args[1], args[2], args[3], None,
             PyList(SelectSeq(SubSeq(args, 4, Len(args)), NotNone)))

\* do_iterative_loop(args): variable, start, end, then an optional BY value
\* and the statements of the body
do_iterative_loop(args) ==
    IF Len(args) < 3 THEN Raise("IndexError")
    ELSE LET has_by == /\ Len(args) > 3
                       /\ args[4].kind \notin IterativeStatementKinds
             statements_start_idx == IF has_by THEN 4 ELSE 3
         IN  IterativeDoLoop(args[1], args[2], args[3],
                 IF has_by THEN args[4] ELSE None,
                 PyList(SelectSeq(
                     SubSeq(args, statements_start_idx + 1, Len(args)),
                     NotNone)))

\* variable deciding like dataset_ref: a one-part name is a dataset
variable_as_dataset_ref(parts) ==
    IF Len(parts) = 1 THEN DatasetRef(None, PyStr(ToStr(parts[1])))
    ELSE IF Len(parts) >= 2
    THEN DatasetRef(PyStr(ToStr(parts[1])), PyStr(ToStr(parts[2])))
    ELSE Raise("IndexError")

\* @v_args(inline=True) variable(self, *parts)
variable(parts) ==
    IF Len(parts) = 1 THEN Variable(PyStr(ToStr(parts[1])))
    ELSE IF Len(parts) >= 2
    THEN DatasetRef(PyStr(ToStr(parts[1])), PyStr(ToStr(parts[2])))
    ELSE Raise("IndexError")

\* @v_args(inline=True) dataset_ref(self, *parts)
dataset_ref(parts) ==
    IF Len(parts) = 1 THEN DatasetRef(None, PyStr(ToStr(parts[1])))
    ELSE IF Len(parts) >= 2
    THEN DatasetRef(PyStr(ToStr(parts[1])), PyStr(ToStr(parts[2])))
    ELSE Raise("IndexError")

\* NUMBER deciding by the value: a numeral with a zero fraction is an int
NUMBER_ByValue(token) ==
    IF "." \in Items(token.s)
    THEN IF /\ Cardinality({i \in DOMAIN token.s : token.s[i] = "."}) = 1
            /\ Len(token.s) > 1
         THEN IF float(token.s).den = 1
              THEN Literal(PyInt(float(token.s).num), PyStr(StrNumber))
              ELSE Literal(float(token.s), PyStr(StrNumber))
         ELSE Raise("ValueError")
    ELSE IF token.s = << >> THEN Raise("ValueError")
    ELSE Literal(PyInt(int(token.s)), PyStr(StrNumber))

\* NUMBER(token): float(token) or int(token) raise ValueError on a text
\* that is no numeral
NUMBER(token) ==
    IF "." \in Items(token.s)
    THEN IF /\ Cardinality({i \in DOMAIN token.s : token.s[i] = "."}) = 1
            /\ Len(token.s) > 1
         THEN Literal(float(token.s), PyStr(StrNumber))
         ELSE Raise("ValueError")
    ELSE IF token.s = << >> THEN Raise("ValueError")
    ELSE Literal(PyInt(int(token.s)), PyStr(StrNumber))

\* STRING(token): str(token)[1:-1]  (STRING is a reserved word of TLA+)
STRING_(token) ==
    Literal(PyStr(SubSeq(token.s, 2, Len(token.s) - 1)), PyStr(StrString))

\* set_statement(args): args[0] is the dataset, then option lists or options
SetStatementArg(options, arg) ==
    IF arg.kind = "list"
    THEN options \o SelectSeq(arg.items, LAMBDA opt : opt.kind = "DatasetOption")
    ELSE IF arg.kind = "DatasetOption" THEN Append(options, arg)
    ELSE options

RECURSIVE SetStatementLoop(_, _)
SetStatementLoop(options, args) ==
    IF args = << >> THEN options
    ELSE SetStatementLoop(SetStatementArg(options, Head(args)), Tail(args))

set_statement(args) ==
    IF args = << >> THEN Raise("IndexError")
    ELSE SetStatement(args[1], PyList(SetStatementLoop(<< >>, Tail(args))))

\* merge_statement(args)
MergeStatementArg(acc, arg) ==
    IF arg.kind = "DatasetRef"
    THEN [acc EXCEPT !.datasets = Append(@, arg)]
    ELSE IF arg.kind = "list"
    THEN [acc EXCEPT !.options =
             @ \o SelectSeq(arg.items, LAMBDA opt : opt.kind = "DatasetOption")]
    ELSE acc

RECURSIVE MergeStatementLoop(_, _)
MergeStatementLoop(acc, args) ==
    IF args = << >> THEN acc
    ELSE MergeStatementLoop(MergeStatementArg(acc, Head(args)), Tail(args))

merge_statement(args) ==
    LET acc == MergeStatementLoop([datasets |-> << >>, options |-> << >>], args)
    IN  MergeStatement(PyList(acc.datasets), PyList(acc.options))

\* by_statement(variables)
by_statement(variables) == ByStatement(PyList(variables))

\* @v_args(inline=True) option(self, name, value)
option(name, value) == DatasetOption(PyStr(ToStr(name)), value)

\* @v_args(inline=True) option_value(self, value)
option_value(value) == value

\* variable_list(self, variables)
variable_list(variables) == PyList(variables)

\* keep_option(self, args): args[0] is the variable_list
keep_option(args) ==
    DatasetOption(PyStr(<< "k", "e", "e", "p" >>),
                  IF args # << >> THEN args[1] ELSE PyList(<< >>))

\* drop_option(self, args)
drop_option(args) ==
    DatasetOption(PyStr(<< "d", "r", "o", "p" >>),
                  IF args # << >> THEN args[1] ELSE PyList(<< >>))

\* rename_option(self, args): args[0] is the list of rename pairs
rename_option(args) ==
    DatasetOption(PyStr(<< "r", "e", "n", "a", "m", "e" >>),
                  IF args # << >> THEN args[1] ELSE PyList(<< >>))

\* condition falling back to its first child on an unexpected child count
condition_FirstChild(args) ==
    IF Len(args) = 3
    THEN Condition(BinaryOperation(args[1], args[2], args[3]))
    ELSE IF args = << >> THEN Raise("IndexError")
    ELSE Condition(args[1])

\* condition(args)
condition(args) ==
    IF Len(args) = 1 THEN Condition(args[1])
    ELSE IF Len(args) = 3
    THEN Condition(BinaryOperation(args[1], args[2], args[3]))
    ELSE Raise("ValueError")

\* expression(args): left_expression operator term
expression(args) ==
    IF Len(args) = 1 THEN args[1]
    ELSE IF Len(args) = 3
    THEN BinaryOperation(args[1], PyStr(ToStr(args[2])), args[3])
    ELSE Raise("ValueError")

\* term(args): factor operator factor
term(args) ==
    IF Len(args) = 1 THEN args[1]
    ELSE IF Len(args) = 3
    THEN BinaryOperation(args[1], PyStr(ToStr(args[2])), args[3])
    ELSE Raise("ValueError")

\* factor(args): args[0]
factor(args) == IF args = << >> THEN Raise("IndexError") ELSE args[1]

\* statement(args), do_block(args): args[0] if args else None
statement(args) == IF args = << >> THEN None ELSE args[1]
do_block(args) == IF args = << >> THEN None ELSE args[1]

\* output_statement(args)
output_statement(args) ==
    OutputStatement(IF args = << >> THEN None ELSE args[1])

\* stop_statement(args), delete_statement(args)
stop_statement(args) == StopStatement
delete_statement(args) == DeleteStatement

\* @v_args(inline=True) assignment(self, variable, expression)
assignment(variable_, expression_) == Assignment(variable_, expression_)

\* if_statement(args)
if_statement(args) ==
    IF Len(args) < 2 THEN Raise("IndexError")
    ELSE IfStatement(args[1], args[2])

\* The forms of a THEN clause
assignment_no_semicolon(variable_, expression_) ==
    Assignment(variable_, expression_)
then_action_with_semicolon(action) == action
then_action_no_semicolon(action) == action
output_no_semicolon_Bare(args) == OutputStatement(None)
output_no_semicolon(args) ==
    OutputStatement(IF args = << >> THEN None ELSE args[1])
stop_no_semicolon(args) == StopStatement
delete_no_semicolon(args) == DeleteStatement

\* proc_options(self, options)
proc_options(options) == PyList(options)

\* The call Lark makes of the callback of a rule with the transformed
\* children: a method decorated v_args(inline=True) takes them as positional
\* arguments, so another number of them is a TypeError
Callback(data, children) ==
    CASE data = "program" -> program(children)
      [] data = "statement" -> statement(children)
      [] data = "data_step" -> data_step(children)
      [] data = "proc_step" -> proc_step(children)
      [] data = "proc_options" -> proc_options(children)
      [] data = "option" ->
            IF Len(children) = 2 THEN option(children[1], children[2])
            ELSE Raise("TypeError")
      [] data = "option_value" ->
            IF Len(children) = 1 THEN option_value(children[1])
            ELSE Raise("TypeError")
      [] data = "do_block" -> do_block(children)
      [] data = "do_simple" -> do_simple(children)
      [] data = "output_statement" -> output_statement(children)
      [] data = "stop_statement" -> stop_statement(children)
      [] data = "delete_statement" -> delete_statement(children)
      [] data = "assignment" ->
            IF Len(children) = 2 THEN assignment(children[1], children[2])
            ELSE Raise("TypeError")
      [] data = "assignment_no_semicolon" ->
            IF Len(children) = 2
            THEN assignment_no_semicolon(children[1], children[2])
            ELSE Raise("TypeError")
      [] data = "if_statement" -> if_statement(children)
      [] data = "then_action_with_semicolon" ->
            IF Len(children) = 1 THEN then_action_with_semicolon(children[1])
            ELSE Raise("TypeError")
      [] data = "then_action_no_semicolon" ->
            IF Len(children) = 1 THEN then_action_no_semicolon(children[1])
            ELSE Raise("TypeError")
      [] data = "output_no_semicolon" -> output_no_semicolon(children)
      [] data = "stop_no_semicolon" -> stop_no_semicolon(children)
      [] data = "delete_no_semicolon" -> delete_no_semicolon(children)
      [] data = "condition" -> condition(children)
      [] data = "variable" -> variable(children)
      [] data = "dataset_ref" -> dataset_ref(children)
      [] data = "expression" -> expression(children)
      [] data = "term" -> term(children)
      [] data = "factor" -> factor(children)

\* lark.Tree(data, children)
Tree(data, children) == [kind |-> "Tree", data |-> data, children |-> children]

\* Transformer.transform(tree): the children of a subtree are transformed
\* first, then its callback is called with the results; an exception a
\* callback raises leaves transform, no callback above it is called
RECURSIVE transform_tree(_)
transform_tree(t) ==
    IF t.kind # "Tree" THEN t
    ELSE LET children == [i \in DOMAIN t.children |-> transform_tree(t.children[i])]
             raised == {i \in DOMAIN children : children[i].kind = "Raise"}
         IN  IF raised # {}
             THEN children[CHOOSE i \in raised : \A j \in raised : i <= j]
             ELSE Callback(t.data, children)

\* Transformer.transform on a step subtree whose children are transformed
TransformStep(t) ==
    IF t.rule = "data_step" THEN data_step(t.args) ELSE proc_step(t.args)

\* SASTransformer.transform(tree): bottom-up, the root is `program`
transform(t) == program([i \in DOMAIN t |-> TransformStep(t[i])])

(***************************************************************************)
(* SASParser.parse on a text.  The grammar file is not part of the         *)
(* sources: the reading of a text follows the input format of the          *)
(* specification, for steps made of a DATA or PROC header (PROC with an    *)
(* optional DATA= option), SET, MERGE and BY statements and RUN.  Keywords *)
(* are read in any case (the tests write them in lower case); a name is    *)
(* the text of its token.                                                  *)
(***************************************************************************)
\* The tokens of a text: ";" and "=", and the runs of other characters
\* between them and the blanks
Lex(text) ==
    LET Punct(c) == c \in {";", "="}
        WordChar(c) == c \notin {" ", "\n", ";", "="}
        n == Len(text)
        starts == SelectSeq([i \in 1..n |-> i],
                      LAMBDA i : \/ Punct(text[i])
                                 \/ /\ WordChar(text[i])
                                    /\ (i = 1 \/ ~WordChar(text[i - 1])))
        end(i) == IF Punct(text[i]) THEN i
                  ELSE CHOOSE j \in i..n :
                           /\ \A k \in i..j : WordChar(text[k])
                           /\ (j = n \/ ~WordChar(text[j + 1]))
    IN  [k \in DOMAIN starts |-> SubSeq(text, starts[k], end(starts[k]))]

\* The runs of a sequence before each of its closing elements, whose
\* positions are `ends`; elements after the last closing one are a run that
\* does not end
SplitAt(seq, ends) ==
    [ok |-> seq = << >> \/ (ends # << >> /\ ends[Len(ends)] = Len(seq)),
     parts |-> [k \in DOMAIN ends |->
                   SubSeq(seq, (IF k = 1 THEN 1 ELSE ends[k - 1] + 1),
                       ends[k] - 1)]]

Keyword(st, kw) == st # << >> /\ Upper(st[1]) = kw

\* IDENTIFIER ("." IDENTIFIER)?: the parts of a dotted name
DottedParts(word) ==
    IF \E i \in DOMAIN word : word[i] = "."
    THEN LET dot == CHOOSE i \in DOMAIN word :
                        word[i] = "." /\ \A j \in 1..(i - 1) : word[j] # "."
         IN  << PyStr(SubSeq(word, 1, dot - 1)),
                PyStr(SubSeq(word, dot + 1, Len(word))) >>
    ELSE << PyStr(word) >>

\* The dataset references / the variables a list of words names
DatasetRefs(words) == [i \in DOMAIN words |-> dataset_ref(DottedParts(words[i]))]
Variables(words) == [i \in DOMAIN words |-> variable(DottedParts(words[i]))]

\* The step subtree a header statement opens (None: no header)
StepHeader(st) ==
    IF Keyword(st, << "D", "A", "T", "A" >>)
    THEN [rule |-> "data_step", args |-> DatasetRefs(Tail(st))]
    ELSE IF Keyword(st, << "P", "R", "O", "C" >>) /\ Len(st) = 2
    THEN [rule |-> "proc_step", args |-> << PyStr(st[2]) >>]
    ELSE IF /\ Keyword(st, << "P", "R", "O", "C" >>)
            /\ Len(st) = 5
            /\ st[4] = << "=" >>
            /\ Upper(st[3]) = << "D", "A", "T", "A" >>
    THEN [rule |-> "proc_step",
          args |-> << PyStr(st[2]),
                      option(PyStr(st[3]),
                             option_value(variable(DottedParts(st[5])))) >>]
    ELSE None

\* The child a statement inside a step becomes (None: not a statement)
StepChild(st) ==
    IF Keyword(st, << "S", "E", "T" >>) /\ Len(st) = 2
    THEN set_statement(DatasetRefs(Tail(st)))
    ELSE IF Keyword(st, << "M", "E", "R", "G", "E" >>) /\ Len(st) > 1
    THEN merge_statement(DatasetRefs(Tail(st)))
    ELSE IF Keyword(st, << "B", "Y" >>) /\ Len(st) > 1
    THEN by_statement(Variables(Tail(st)))
    ELSE None

\* self.parser.parse(sas_code): the step subtrees, or a syntax error
lark_parse(sas_code) ==
    LET toks == Lex(sas_code)
        stmts == SplitAt(toks,
                     SelectSeq([i \in 1..Len(toks) |-> i],
                         LAMBDA i : toks[i] = << ";" >>))
        steps == SplitAt(stmts.parts,
                     SelectSeq([i \in 1..Len(stmts.parts) |-> i],
                         LAMBDA i : /\ Keyword(stmts.parts[i], << "R", "U", "N" >>)
                                    /\ Len(stmts.parts[i]) = 1))
        accepted ==
            /\ stmts.ok
            /\ steps.ok
            /\ \A k \in DOMAIN steps.parts :
                   /\ steps.parts[k] # << >>
                   /\ StepHeader(steps.parts[k][1]) # None
                   /\ \A i \in 2..Len(steps.parts[k]) :
                          StepChild(steps.parts[k][i]) # None
    IN  IF accepted
        THEN [ok |-> TRUE,
              steps |-> [k \in DOMAIN steps.parts |->
                            [StepHeader(steps.parts[k][1]) EXCEPT !.args =
                                @ \o [i \in 1..(Len(steps.parts[k]) - 1) |->
                                         StepChild(steps.parts[k][i + 1])]]]]
        ELSE [ok |-> FALSE, steps |-> << >>]

\* SASParser.parse(sas_code)
parse(sas_code) ==
    LET parsed == lark_parse(sas_code)
    IN  IF parsed.ok THEN transform(parsed.steps) ELSE Raise("SyntaxError")

(***************************************************************************)
(* lineage_extractor.py                                                    *)
(***************************************************************************)
\* hasattr(x, '__dict__'): true of the dataclass instances only
HasDict(x) == x.kind \notin BuiltinKinds

\* node.__dict__.values()
Attrs(node) == {node[f] : f \in DOMAIN node \ {"kind"}}

\* _extract_variables_from_node(node, variables): the names it adds
RECURSIVE extract_variables_from_node(_)
extract_variables_from_node(node) ==
    IF node.kind = "Variable" THEN {ToStr(node)}
    ELSE IF node.kind = "BinaryOperation"
    THEN extract_variables_from_node(node.left)
            \cup extract_variables_from_node(node.right)
    ELSE IF node.kind = "Condition"
    THEN extract_variables_from_node(node.expression)
    ELSE IF node.kind = "Assignment"
    THEN extract_variables_from_node(node.expression)
    ELSE IF HasDict(node)
    THEN UNION { IF attr_value.kind \in {"list", "tuple"}
                 THEN UNION { extract_variables_from_node(item) :
                                  item \in Items(attr_value.items) }
                 ELSE IF HasDict(attr_value)
                 THEN extract_variables_from_node(attr_value)
                 ELSE {} : attr_value \in Attrs(node) }
    ELSE {}

\* The variables of the values of a list of options
OptionVariables(options) ==
    UNION { extract_variables_from_node(opt.value) :
                opt \in Items(options.items) }

\* The names of a set in ascending order
RECURSIVE SortedNames(_)
SortedNames(s) ==
    IF s = {} THEN << >>
    ELSE LET least == CHOOSE x \in s : \A y \in s \ {x} : StrLess(x, y)
         IN  << least >> \o SortedNames(s \ {least})

\* NewMetadata with the class name as the operation tag
NewMetadataClassName ==
    [inputs |-> << >>, outputs |-> << >>, columns_created |-> << >>,
     columns_used |-> {}, filters |-> << >>, keys |-> << >>,
     operation |-> << "D", "a", "t", "a", "S", "t", "e", "p" >>]

\* metadata = {...}: the record a DATA step starts from
NewMetadata ==
    [inputs |-> << >>, outputs |-> << >>, columns_created |-> << >>,
     columns_used |-> {}, filters |-> << >>, keys |-> << >>,
     operation |-> StrDataStep]

\* Extract output dataset
MdOutputs(md, data_step_node) ==
    IF Truthy(data_step_node.output_dataset)
    THEN [md EXCEPT !.outputs = Append(@, ToStr(data_step_node.output_dataset))]
    ELSE md

\* Extract input datasets from SET statement
MdSet(md, data_step_node) ==
    IF Truthy(data_step_node.set_statement)
    THEN [md EXCEPT
            !.inputs = Append(@, ToStr(data_step_node.set_statement.dataset)),
            !.columns_used =
                @ \cup OptionVariables(data_step_node.set_statement.options)]
    ELSE md

\* Extract input datasets from MERGE statement
MdMerge(md, data_step_node) ==
    IF Truthy(data_step_node.merge_statement)
    THEN [md EXCEPT
            !.inputs = @ \o MapStr(data_step_node.merge_statement.datasets.items),
            !.columns_used =
                @ \cup OptionVariables(data_step_node.merge_statement.options)]
    ELSE md

\* MdBy with the keys sorted like columns_used
MdBySorted(md, data_step_node) ==
    IF Truthy(data_step_node.by_statement)
    THEN [md EXCEPT
            !.keys = @ \o SortedNames(
                Items(MapStr(data_step_node.by_statement.variables.items))),
            !.columns_used =
                @ \cup Items(MapStr(data_step_node.by_statement.variables.items))]
    ELSE md

\* Extract BY variables
MdBy(md, data_step_node) ==
    IF Truthy(data_step_node.by_statement)
    THEN [md EXCEPT
            !.keys = @ \o MapStr(data_step_node.by_statement.variables.items),
            !.columns_used =
                @ \cup Items(MapStr(data_step_node.by_statement.variables.items))]
    ELSE md

\* MdWhere rendering the whole clause instead of its condition
MdWhereClause(md, data_step_node) ==
    IF Truthy(data_step_node.where_clause)
    THEN [md EXCEPT
            !.filters = Append(@, ToStr(data_step_node.where_clause)),
            !.columns_used =
                @ \cup extract_variables_from_node(
                           data_step_node.where_clause.condition)]
    ELSE md

\* Extract WHERE clause
MdWhere(md, data_step_node) ==
    IF Truthy(data_step_node.where_clause)
    THEN [md EXCEPT
            !.filters = Append(@, ToStr(data_step_node.where_clause.condition)),
            !.columns_used =
                @ \cup extract_variables_from_node(
                           data_step_node.where_clause.condition)]
    ELSE md

\* MdStatement recording a created column only once
MdStatementOnce(md, stmt) ==
    LET add(cols, c) == IF c \in Items(cols) THEN cols ELSE Append(cols, c)
    IN  IF stmt.kind = "Assignment"
        THEN [md EXCEPT
                !.columns_created = add(@, ToStr(stmt.variable)),
                !.columns_used =
                    @ \cup extract_variables_from_node(stmt.expression)]
        ELSE IF stmt.kind = "IfStatement"
        THEN [md EXCEPT
                !.columns_used =
                    @ \cup extract_variables_from_node(stmt.condition)
                      \cup extract_variables_from_node(stmt.then_statement),
                !.columns_created =
                    IF stmt.then_statement.kind = "Assignment"
                    THEN add(@, ToStr(stmt.then_statement.variable))
                    ELSE @]
        ELSE md

\* The loop body, were it to walk into DO blocks and loops as well
MdStatementBlocks(md, stmt) ==
    IF stmt.kind = "Assignment"
    THEN [md EXCEPT
            !.columns_created = Append(@, ToStr(stmt.variable)),
            !.columns_used = @ \cup extract_variables_from_node(stmt.expression)]
    ELSE IF stmt.kind = "IfStatement"
    THEN [md EXCEPT
            !.columns_used =
                @ \cup extract_variables_from_node(stmt.condition)
                  \cup extract_variables_from_node(stmt.then_statement),
            !.columns_created =
                IF stmt.then_statement.kind = "Assignment"
                THEN Append(@, ToStr(stmt.then_statement.variable))
                ELSE @]
    ELSE [md EXCEPT
            !.columns_used = @ \cup extract_variables_from_node(stmt)]

\* One iteration of the loop over data_step.statements
MdStatement(md, stmt) ==
    IF stmt.kind = "Assignment"
    THEN [md EXCEPT
            !.columns_created = Append(@, ToStr(stmt.variable)),
            !.columns_used = @ \cup extract_variables_from_node(stmt.expression)]
    ELSE IF stmt.kind = "IfStatement"
    THEN [md EXCEPT
            !.columns_used =
                @ \cup extract_variables_from_node(stmt.condition)
                  \cup extract_variables_from_node(stmt.then_statement),
            !.columns_created =
                IF stmt.then_statement.kind = "Assignment"
                THEN Append(@, ToStr(stmt.then_statement.variable))
                ELSE @]
    ELSE md

RECURSIVE MdStatements(_, _)
MdStatements(md, stmts) ==
    IF stmts = << >> THEN md
    ELSE MdStatements(MdStatement(md, Head(stmts)), Tail(stmts))

\* sorted(list(s), reverse=True)
RECURSIVE SortedReverse(_)
SortedReverse(s) ==
    IF s = {} THEN << >>
    ELSE LET greatest == CHOOSE x \in s : \A y \in s \ {x} : StrLess(y, x)
         IN  << greatest >> \o SortedReverse(s \ {greatest})

\* sorted(list(s)) of a set of str
RECURSIVE Sorted(_)
Sorted(s) ==
    IF s = {} THEN << >>
    ELSE LET least == CHOOSE x \in s : \A y \in s \ {x} : StrLess(x, y)
         IN  << least >> \o Sorted(s \ {least})

extract_data_step_metadata(data_step_node) ==
    LET md == MdStatements(
                  MdWhere(MdBy(MdMerge(MdSet(MdOutputs(NewMetadata,
                      data_step_node), data_step_node), data_step_node),
                      data_step_node), data_step_node),
                  data_step_node.statements.items)
    IN  [md EXCEPT !.columns_used = Sorted(@)]

\* DictSet that keeps an entry the dict already has
DictSetDefault(d, key, value) ==
    [k \in DOMAIN d \cup {key} |-> IF k \in DOMAIN d THEN d[k] ELSE value]

\* lineage[dataset_name] = metadata
DictSet(d, key, value) ==
    [k \in DOMAIN d \cup {key} |-> IF k = key THEN value ELSE d[k]]

\* LineageStmt filing a record for the dataset of a ProcStep
LineageStmtProc(lin, stmt) ==
    IF stmt.kind = "DataStep"
    THEN LET md == extract_data_step_metadata(stmt)
         IN  IF md.outputs # << >> THEN DictSet(lin, md.outputs[1], md) ELSE lin
    ELSE IF stmt.kind = "ProcStep" /\ stmt.dataset # None
    THEN DictSet(lin, ToStr(stmt.dataset),
                 [extract_data_step_metadata(
                      DataStep(stmt.dataset, None, None, None, None,
                               PyList(<< >>)))
                  EXCEPT !.inputs = << ToStr(stmt.dataset) >>])
    ELSE lin

\* The loop body, were it to file the record of a step without output too
LineageStmtUnnamed(lin, stmt) ==
    IF stmt.kind = "DataStep"
    THEN LET md == extract_data_step_metadata(stmt)
         IN  IF md.outputs # << >> THEN DictSet(lin, md.outputs[1], md)
             ELSE DictSet(lin, << >>, md)
    ELSE lin

\* The body of the loop of extract_lineage: the new `lineage`
LineageStmt(lin, stmt) ==
    IF stmt.kind = "DataStep"
    THEN LET md == extract_data_step_metadata(stmt)
         IN  IF md.outputs # << >> THEN DictSet(lin, md.outputs[1], md) ELSE lin
    ELSE lin

\* extract_lineage: the dict it returns for a list of statements
RECURSIVE ExtractLoop(_, _)
ExtractLoop(lin, stmts) ==
    IF stmts = << >> THEN lin
    ELSE ExtractLoop(LineageStmt(lin, Head(stmts)), Tail(stmts))

extract_lineage(prog) == ExtractLoop(<< >>, prog.statements.items)

(***************************************************************************)
(* The inputs: parse trees whose step children are already transformed.    *)
(* The grammar file is not part of the sources; the shapes follow the      *)
(* input format of the specification and the programs of the tests.        *)
(***************************************************************************)
MaxOut == 2      \* output datasets declared by a DATA step
MaxBody == 2     \* body children of a DATA step
MaxSteps == 3    \* steps of a program

Name_a == PyStr(<< "a" >>)
Name_b == PyStr(<< "b" >>)
Name_work == PyStr(<< "w", "o", "r", "k" >>)
Name_raw == PyStr(<< "r", "a", "w" >>)
Name_transactions == PyStr(<< "t", "x", "n", "s" >>)
Name_input == PyStr(<< "i", "n", "p", "u", "t" >>)
Name_customers == PyStr(<< "c", "u", "s", "t", "o", "m", "e", "r", "s" >>)
Name_accounts == PyStr(<< "a", "c", "c", "o", "u", "n", "t", "s" >>)
Name_customer_id == PyStr(<< "c", "u", "s", "t", "o", "m", "e", "r", "_", "i", "d" >>)
Name_name == PyStr(<< "n", "a", "m", "e" >>)
Name_region == PyStr(<< "r", "e", "g", "i", "o", "n" >>)
Name_profit == PyStr(<< "p", "r", "o", "f", "i", "t" >>)
Name_revenue == PyStr(<< "r", "e", "v", "e", "n", "u", "e" >>)
Name_cost == PyStr(<< "c", "o", "s", "t" >>)
Name_co == PyStr(<< "c", "o" >>)
Name_Zip == PyStr(<< "Z", "i", "p" >>)
Name_high == PyStr(<< "h", "i", "g", "h" >>)
Name_old == PyStr(<< "o", "l", "d" >>)
Name_new == PyStr(<< "n", "e", "w" >>)
Name_total == PyStr(<< "t", "o", "t", "a", "l" >>)
Name_first == PyStr(<< "f", "i", "r", "s", "t" >>)
Name_keep == PyStr(<< "k", "e", "e", "p" >>)
Name_rename == PyStr(<< "r", "e", "n", "a", "m", "e" >>)
Name_obs == PyStr(<< "o", "b", "s" >>)
Name_data == PyStr(<< "d", "a", "t", "a" >>)
Name_DATA == PyStr(<< "D", "A", "T", "A" >>)
Name_print == PyStr(<< "p", "r", "i", "n", "t" >>)
Name_sort == PyStr(<< "s", "o", "r", "t" >>)
Name_APAC == PyStr(<< "A", "P", "A", "C" >>)

OpEq == PyStr(<< "=" >>)
OpGt == PyStr(<< ">" >>)
OpSub == PyStr(<< "-" >>)
OpAdd == PyStr(<< "+" >>)

Num(n) == Literal(PyInt(n), PyStr(StrNumber))
String(cs) == Literal(cs, PyStr(StrString))

Ref_a == DatasetRef(None, Name_a)
Ref_b == DatasetRef(None, Name_b)
Ref_work_a == DatasetRef(Name_work, Name_a)
Ref_input == DatasetRef(None, Name_input)
Ref_raw == DatasetRef(Name_raw, Name_transactions)

\* DATA <dataset>[ <dataset>...]; : the declared outputs
OutputRefs == {Ref_a, Ref_b}

\* SET / MERGE / BY / WHERE children
SetRaw == SetStatement(Ref_raw, PyList(<< >>))
SetKeep ==
    SetStatement(Ref_input,
        PyList(<< DatasetOption(Name_keep,
                      PyList(<< Variable(Name_customer_id),
                                Variable(Name_name) >>)) >>))
SetObsRename ==
    SetStatement(Ref_input,
        PyList(<< DatasetOption(Name_obs, Variable(Name_first)),
                  DatasetOption(Name_rename,
                      PyList(<< PyTuple(<< Variable(Name_old),
                                           Variable(Name_new) >>) >>)) >>))
MergeCustomers ==
    MergeStatement(
        PyList(<< DatasetRef(None, Name_customers),
                  DatasetRef(None, Name_accounts) >>), PyList(<< >>))
MergeObs ==
    MergeStatement(PyList(<< Ref_b, Ref_work_a >>),
        PyList(<< DatasetOption(Name_obs, Variable(Name_Zip)) >>))
ByCustomer == ByStatement(PyList(<< Variable(Name_customer_id) >>))
ByTwo ==
    ByStatement(PyList(<< Variable(Name_name), Variable(Name_customer_id) >>))
WhereRegion ==
    WhereClause(Condition(
        BinaryOperation(Variable(Name_region), OpEq, String(Name_APAC))))

\* body statements
AssignProfit ==
    Assignment(Variable(Name_profit),
        BinaryOperation(Variable(Name_revenue), OpSub, Variable(Name_cost)))
AssignZero == Assignment(Variable(Name_profit), Num(0))
IfHigh ==
    IfStatement(
        Condition(BinaryOperation(Variable(Name_profit), OpGt, Num(1000))),
        Assignment(Variable(Name_high), Variable(Name_co)))
IfDo ==
    IfStatement(Condition(Variable(Name_Zip)),
        DoBlock(PyList(<<
            Assignment(Variable(Name_total),
                BinaryOperation(Variable(Name_total), OpAdd,
                                Variable(Name_cost))),
            KeepStatement(PyList(<< Variable(Name_name) >>)),
            RenameStatement(PyList(<< PyTuple(<< Variable(Name_old),
                                                 Variable(Name_new) >>) >>))
        >>)))
DoTop ==
    DoBlock(PyList(<< Assignment(Variable(Name_total), Variable(Name_first)) >>))
KeepTop == KeepStatement(PyList(<< Variable(Name_region) >>))

BodyChildren ==
    {SetRaw, SetKeep, SetObsRename, MergeCustomers, MergeObs, ByCustomer,
     ByTwo, WhereRegion, AssignProfit, AssignZero, IfHigh, IfDo, DoTop,
     KeepTop, None}

SeqsUpTo(S, n) == UNION { [1..k -> S] : k \in 0..n }

DataStepTree(children) == [rule |-> "data_step", args |-> children]
ProcStepTree(children) == [rule |-> "proc_step", args |-> children]

\* One DATA step with any declared outputs and any body
RichSteps ==
    { DataStepTree(outs \o body) :
          outs \in SeqsUpTo(OutputRefs, MaxOut),
          body \in SeqsUpTo(BodyChildren, MaxBody) }

\* The steps of the programs of several steps
LeanSteps ==
    { DataStepTree(<< Ref_a, SetRaw, AssignProfit >>),
      DataStepTree(<< Ref_a, MergeCustomers, ByCustomer >>),
      DataStepTree(<< Ref_work_a, SetKeep >>),
      DataStepTree(<< Ref_a, Ref_b >>),
      DataStepTree(<< Ref_b, Ref_a, WhereRegion >>),
      DataStepTree(<< SetRaw >>),
      DataStepTree(<< Ref_a, WhereRegion,
                      WhereClause(Condition(
                          BinaryOperation(Variable(Name_profit), OpGt, Num(1000)))) >>),
      DataStepTree(<< Ref_b,
                      DoWhileLoop(Condition(Variable(Name_Zip)),
                          PyList(<< Assignment(Variable(Name_total),
                                               Variable(Name_first)) >>)),
                      IterativeDoLoop(Variable(Name_high), Num(1), Num(3), None,
                          PyList(<< AssignZero >>)),
                      RenameStatement(PyList(<< PyTuple(<< Variable(Name_old),
                                                           Variable(Name_new) >>) >>)),
                      DropStatement(PyList(<< Variable(Name_name) >>)),
                      AssignProfit >>),
      ProcStepTree(<< Name_print, DatasetOption(Name_DATA, Variable(Name_a)) >>),
      ProcStepTree(<< Name_sort,
                      PyList(<< DatasetOption(Name_data, Variable(Name_b)),
                                DatasetOption(Name_obs, Num(10)) >>),
                      ByCustomer >>) }

ParseTrees ==
    { << s >> : s \in RichSteps } \cup SeqsUpTo(LeanSteps, MaxSteps)

(***************************************************************************)
(* The inputs of the transformer callbacks: the children Lark hands to a   *)
(* rule, already transformed.                                              *)
(***************************************************************************)
MaxArgs == 2     \* children of a rule after its fixed ones
MaxDigits == 3   \* digits on either side of the decimal point

Name_Data == PyStr(<< "D", "a", "t", "a" >>)
Name_KEEP == PyStr(<< "K", "E", "E", "P" >>)
Name_drop == PyStr(<< "d", "r", "o", "p" >>)
Name_Rename == PyStr(<< "R", "e", "n", "a", "m", "e" >>)
Name_i == PyStr(<< "i" >>)
Name_x == PyStr(<< "x" >>)
Name_y == PyStr(<< "y" >>)

\* IDENTIFIER tokens as the IDENTIFIER callback returns them
Identifiers ==
    {Name_a, Name_b, Name_work, Name_data, Name_customer_id, Name_Zip}

\* The parts of a dotted name: one segment or two
NameParts == [1..1 -> Identifiers] \cup [1..2 -> Identifiers]

\* The rules whose productions use the dotted name production
VariableParents ==
    {"set_statement", "merge_statement", "by_statement", "keep_statement",
     "assignment", "factor", "option_value"}

\* NUMBER tokens: digits, or digits "." digits
DigitStrings == UNION { [1..k -> {"0", "1", "7"}] : k \in 1..MaxDigits }
NumberTokens ==
    { PyStr(d) : d \in DigitStrings }
        \cup { PyStr(d \o << "." >> \o f) : d \in DigitStrings, f \in DigitStrings }

\* STRING tokens: a text between two single or two double quotes
StringTokens ==
    { PyStr(<< "'" >> \o body \o << "'" >>) :
          body \in SeqsUpTo({"a", "B", " ", "\""}, MaxArgs) }
        \cup { PyStr(<< "\"" >> \o body \o << "\"" >>) :
                  body \in SeqsUpTo({"a", "B", " ", "'"}, MaxArgs) }

\* One statement of every class
StatementSamples ==
    {AssignProfit, IfHigh, KeepTop,
     DropStatement(PyList(<< Variable(Name_cost) >>)),
     RenameStatement(PyList(<< PyTuple(<< Variable(Name_old),
                                          Variable(Name_new) >>) >>)),
     InputStatement(PyList(<< Variable(Name_name) >>), None),
     PutStatement(PyList(<< Variable(Name_name) >>), None),
     InfileStatement(Name_raw, PyList(<< >>)),
     FileStatement(Name_raw, PyList(<< >>)),
     FormatStatement(PyList(<< PyTuple(<< PyList(<< Variable(Name_cost) >>),
                                         PyStr(<< "8", "." >>) >>) >>)),
     InformatStatement(PyList(<< PyTuple(<< PyList(<< Variable(Name_cost) >>),
                                           PyStr(<< "8", "." >>) >>) >>)),
     LabelStatement(PyList(<< PyTuple(<< Variable(Name_cost),
                                        PyStr(<< "\"", "c", "\"" >>) >>) >>)),
     DoTop,
     DoWhileLoop(Condition(Variable(Name_Zip)), PyList(<< AssignZero >>)),
     DoUntilLoop(Condition(Variable(Name_Zip)), PyList(<< AssignZero >>)),
     IterativeDoLoop(Variable(Name_i), Num(1), Num(3), None,
                     PyList(<< AssignZero >>)),
     OutputStatement(None),
     RetainStatement(PyList(<< Variable(Name_total) >>), None),
     LengthStatement(PyList(<< PyTuple(<< PyList(<< Variable(Name_name) >>),
                                         Num(8) >>) >>)),
     StopStatement, DeleteStatement}

\* The children after the fixed ones of a DO form: statements, empty
\* statements, and (of the iterative form) the value of a BY clause
LoopChildren ==
    StatementSamples
        \cup {None, Num(2),
              BinaryOperation(Variable(Name_x), OpAdd, Num(1))}

\* The children of a DATA step
DataStepChildren ==
    OutputRefs
        \cup {SetRaw, MergeCustomers, ByCustomer, WhereRegion, None}
        \cup StatementSamples

\* The children of a PROC step after the procedure name
ProcChildren ==
    {DatasetOption(Name_data, Ref_a), DatasetOption(Name_DATA, Ref_b),
     DatasetOption(Name_Data, Ref_work_a), DatasetOption(Name_obs, Num(10)),
     DatasetOption(Name_keep, PyList(<< Variable(Name_name) >>)),
     PyList(<< DatasetOption(Name_data, Ref_b),
               DatasetOption(Name_obs, Num(10)) >>),
     PyList(<< DatasetOption(Name_obs, Num(5)),
               DatasetOption(Name_DATA, Ref_input),
               DatasetOption(Name_first, Variable(Name_x)) >>),
     ByCustomer, KeepTop, None}

\* The children of the program: steps and empty statements
ProgramChildren ==
    {data_step(<< Ref_a, SetRaw >>), data_step(<< Ref_b, AssignZero >>),
     proc_step(<< Name_print, DatasetOption(Name_data, Ref_a) >>), None}

\* The options __str__ is applied to
VariableLists == SeqsUpTo({Variable(Name_a), Variable(Name_b)}, MaxArgs)
RenamePairs ==
    SeqsUpTo({PyTuple(<< Variable(Name_x), Variable(Name_y) >>),
              PyTuple(<< Variable(Name_old), Variable(Name_new) >>)}, MaxArgs)
SingleValues ==
    {Variable(Name_first), Num(10), Ref_work_a, String(Name_APAC),
     BinaryOperation(Variable(Name_x), OpAdd, Num(1))}
Options ==
    { DatasetOption(n, PyList(vs)) :
          n \in {Name_keep, Name_KEEP, Name_drop}, vs \in VariableLists }
        \cup { DatasetOption(n, PyList(ps)) :
                  n \in {Name_rename, Name_Rename}, ps \in RenamePairs }
        \cup { DatasetOption(n, v) :
                  n \in {Name_obs, Name_data, Name_first, Name_keep,
                         Name_Rename},
                  v \in SingleValues }
        \cup { DatasetOption(Name_obs, PyList(vs)) : vs \in VariableLists }

\* The children condition, expression and term are called with: operands
\* with an operator after each, in any number up to MaxChildren
MaxChildren == 4
ExpressionRules == {"condition", "expression", "term"}
ExpressionChildren ==
    { children \in SeqsUpTo({Variable(Name_x), Num(1), OpGt, OpAdd}, MaxChildren) :
          \A i \in DOMAIN children : children[i].kind = "str" <=> i % 2 = 0 }

\* Parse trees with a condition, an expression or a term below a statement
\* of a DATA step
NestedTrees ==
    { Tree("program", <<
          Tree("data_step", <<
              Ref_a, AssignZero,
              Tree("if_statement", <<
                  Tree("condition", children),
                  Tree("then_action_no_semicolon", <<
                      Tree("assignment_no_semicolon", <<
                          Variable(Name_high), Num(1) >>) >>) >>) >>) >>) :
          children \in ExpressionChildren }
      \cup
    { Tree("program", <<
          Tree("data_step", <<
              Ref_a,
              Tree("assignment", <<
                  Variable(Name_total),
                  Tree(data, << Variable(Name_x), OpAdd,
                                Tree("term", children) >>) >>),
              AssignZero >>) >>) :
          data \in {"expression"},
          children \in ExpressionChildren }

\* Calls of the rules of fixed shape with more children than their
\* productions give them, and with the numbers they are written for
ShapeCalls ==
    { [rule |-> data, args |-> parts] :
          data \in {"variable", "dataset_ref"},
          parts \in [1..3 -> {Name_work, Name_a, Name_x}] }
      \cup
    { [rule |-> "output_statement", args |-> args] :
          args \in SeqsUpTo({Ref_a, Ref_b}, MaxArgs) }
      \cup
    { [rule |-> "if_statement",
       args |-> << Condition(Variable(Name_Zip)), AssignZero >> \o more] :
          more \in SeqsUpTo({AssignProfit, StopStatement}, MaxArgs) }
      \cup
    { [rule |-> "factor", args |-> args] :
          args \in SeqsUpTo({Variable(Name_x), Num(1)}, MaxArgs) \ {<< >>} }
      \cup
    { [rule |-> data, args |-> args] :
          data \in {"statement", "do_block"},
          args \in SeqsUpTo({DoTop, AssignZero}, MaxArgs) }

\* The action of a THEN clause as the parser hands it over: one of the
\* forms without a semicolon, the ordinary statement, or a DO block
ThenActions ==
    { Tree(data, << Variable(Name_high), Num(1) >>) :
          data \in {"assignment_no_semicolon", "assignment"} }
      \cup
    { Tree(data, children) :
          data \in {"output_no_semicolon", "output_statement"},
          children \in {<< >>, << Ref_a >>, << Ref_b >>} }
      \cup
    { Tree(data, << >>) :
          data \in {"stop_no_semicolon", "stop_statement",
                    "delete_no_semicolon", "delete_statement"} }
      \cup
    { Tree("do_block", << Tree("do_simple", << AssignZero, AssignProfit >>) >>) }

\* DATA a; IF Zip THEN <action> RUN;
ThenTrees ==
    { Tree("program", <<
          Tree("data_step", <<
              Ref_a,
              Tree("if_statement", <<
                  Tree("condition", << Variable(Name_Zip) >>),
                  Tree(clause, << action >>) >>) >>) >>) :
          clause \in {"then_action_no_semicolon", "then_action_with_semicolon"},
          action \in ThenActions }

\* PROC PRINT DATA=<name> [DATA=<name>]; RUN; the name written with one or
\* two parts and read by the variable production
DataOptionTrees ==
    { Tree("option", << data,
          Tree("option_value", << Tree("variable", parts) >>) >>) :
          data \in {Name_data, Name_DATA},
          parts \in {<< Name_a >>, << Name_b >>, << Name_work, Name_a >>} }

ProcTrees ==
    { Tree("program", <<
          Tree("proc_step", << Name_print, Tree("proc_options", options) >>) >>) :
          options \in SeqsUpTo(DataOptionTrees, 2) }

\* Names of options written name=value
OptionNames == {Name_keep, Name_KEEP, Name_drop, Name_Rename, Name_obs, Name_data}

(***************************************************************************)
(* The pipeline: SASParser.parse, then LineageExtractor.extract_lineage    *)
(***************************************************************************)
Init ==
    /\ tree = None
    /\ ast = None
    /\ lineage = << >>
    /\ metadata = None
    /\ idx = 0
    /\ pc = "start"
    /\ call = None
    /\ result = None
    /\ parsers = << >>
    /\ frames = << >>
    /\ returned = {}

\* tree = self.parser.parse(sas_code)
Parse ==
    /\ pc = "start"
    /\ \E t \in ParseTrees : tree' = t
    /\ pc' = "parsed"
    /\ UNCHANGED <<ast, lineage, metadata, idx>>
    /\ UNCHANGED <<rules, session>>

\* return self.transformer.transform(tree)
Transform ==
    /\ pc = "parsed"
    /\ ast' = transform(tree)
    /\ pc' = "transformed"
    /\ UNCHANGED <<tree, lineage, metadata, idx>>
    /\ UNCHANGED <<rules, session>>

\* extract_lineage(program): lineage = {}
ExtractBegin ==
    /\ pc = "transformed"
    /\ lineage' = << >>
    /\ idx' = 0
    /\ pc' = "extract"
    /\ UNCHANGED <<tree, ast, metadata>>
    /\ UNCHANGED <<rules, session>>

\* One iteration of `for stmt in program.statements`
ExtractIter ==
    /\ pc = "extract"
    /\ idx < Len(ast.statements.items)
    /\ LET stmt == ast.statements.items[idx + 1]
       IN  /\ metadata' = IF stmt.kind = "DataStep"
                          THEN extract_data_step_metadata(stmt)
                          ELSE metadata
           /\ lineage' = LineageStmt(lineage, stmt)
    /\ idx' = idx + 1
    /\ UNCHANGED <<tree, ast, pc>>
    /\ UNCHANGED <<rules, session>>

\* return lineage
ExtractReturn ==
    /\ pc = "extract"
    /\ idx = Len(ast.statements.items)
    /\ pc' = "done"
    /\ UNCHANGED <<tree, ast, lineage, metadata, idx>>
    /\ UNCHANGED <<rules, session>>

Next == Parse \/ Transform \/ ExtractBegin \/ ExtractIter \/ ExtractReturn

Spec == Init /\ [][Next]_vars

(***************************************************************************)
(* The transformer callbacks, one at a time: Lark calls a rule with the    *)
(* transformed children of a subtree, bottom-up.                           *)
(***************************************************************************)
RuleInit ==
    /\ tree = None
    /\ ast = None
    /\ lineage = << >>
    /\ metadata = None
    /\ idx = 0
    /\ pc = "rules"
    /\ call = None
    /\ result = None
    /\ parsers = << >>
    /\ frames = << >>
    /\ returned = {}

\* What a callback leaves alone
RuleFrame == UNCHANGED <<tree, ast, lineage, metadata, idx, session>>

\* The dotted name production, under any of the rules that use it
CallVariable ==
    /\ pc = "rules"
    /\ \E parts \in NameParts, parent \in VariableParents :
           /\ call' = [rule |-> "variable", args |-> parts, parent |-> parent]
           /\ result' = variable(parts)
    /\ pc' = "called"
    /\ RuleFrame

CallDatasetRef ==
    /\ pc = "rules"
    /\ \E parts \in NameParts :
           /\ call' = [rule |-> "dataset_ref", args |-> parts]
           /\ result' = dataset_ref(parts)
    /\ pc' = "called"
    /\ RuleFrame

CallNUMBER ==
    /\ pc = "rules"
    /\ \E token \in NumberTokens :
           /\ call' = [rule |-> "NUMBER", args |-> << token >>]
           /\ result' = NUMBER(token)
    /\ pc' = "called"
    /\ RuleFrame

CallSTRING ==
    /\ pc = "rules"
    /\ \E token \in StringTokens :
           /\ call' = [rule |-> "STRING", args |-> << token >>]
           /\ result' = STRING_(token)
    /\ pc' = "called"
    /\ RuleFrame

CallProgram ==
    /\ pc = "rules"
    /\ \E statements \in SeqsUpTo(ProgramChildren, MaxArgs) :
           /\ call' = [rule |-> "program", args |-> statements]
           /\ result' = program(statements)
    /\ pc' = "called"
    /\ RuleFrame

CallDataStep ==
    /\ pc = "rules"
    /\ \E args \in SeqsUpTo(DataStepChildren, MaxArgs) :
           /\ call' = [rule |-> "data_step", args |-> args]
           /\ result' = data_step(args)
    /\ pc' = "called"
    /\ RuleFrame

CallProcStep ==
    /\ pc = "rules"
    /\ \E name \in {Name_print, Name_sort}, rest \in SeqsUpTo(ProcChildren, MaxArgs) :
           /\ call' = [rule |-> "proc_step", args |-> << name >> \o rest]
           /\ result' = proc_step(<< name >> \o rest)
    /\ pc' = "called"
    /\ RuleFrame

CallDoSimple ==
    /\ pc = "rules"
    /\ \E statements \in SeqsUpTo(LoopChildren, MaxArgs) :
           /\ call' = [rule |-> "do_simple", args |-> statements]
           /\ result' = do_simple(statements)
    /\ pc' = "called"
    /\ RuleFrame

CallDoWhileLoop ==
    /\ pc = "rules"
    /\ \E rest \in SeqsUpTo(LoopChildren, MaxArgs) :
           /\ call' = [rule |-> "do_while_loop", args |-> << Condition(Variable(Name_Zip)) >> \o rest]
           /\ result' = do_while_loop(<< Condition(Variable(Name_Zip)) >> \o rest)
    /\ pc' = "called"
    /\ RuleFrame

CallDoUntilLoop ==
    /\ pc = "rules"
    /\ \E rest \in SeqsUpTo(LoopChildren, MaxArgs) :
           /\ call' = [rule |-> "do_until_loop", args |-> << Condition(Variable(Name_Zip)) >> \o rest]
           /\ result' = do_until_loop(<< Condition(Variable(Name_Zip)) >> \o rest)
    /\ pc' = "called"
    /\ RuleFrame

\* DO i = 1 TO 20 [BY value]; statements END;
CallDoIterativeLoop ==
    /\ pc = "rules"
    /\ \E rest \in SeqsUpTo(LoopChildren, MaxArgs) :
           /\ call' = [rule |-> "do_iterative_loop", args |-> << Variable(Name_i), Num(1), Num(20) >> \o rest]
           /\ result' = do_iterative_loop(
                  << Variable(Name_i), Num(1), Num(20) >> \o rest)
    /\ pc' = "called"
    /\ RuleFrame

\* condition, expression or term called with any number of children
CallExpressionRule ==
    /\ pc = "rules"
    /\ \E data \in ExpressionRules, args \in ExpressionChildren :
           /\ call' = [rule |-> data, args |-> args]
           /\ result' = Callback(data, args)
    /\ pc' = "called"
    /\ RuleFrame

\* A rule of fixed shape called with some number of children
CallShape ==
    /\ pc = "rules"
    /\ \E c \in ShapeCalls :
           /\ call' = c
           /\ result' = Callback(c.rule, c.args)
    /\ pc' = "called"
    /\ RuleFrame

\* An option written name=value, or KEEP= / DROP= / RENAME= with its list
CallOption ==
    /\ pc = "rules"
    /\ \/ \E name \in OptionNames, value \in SingleValues :
              /\ call' = [rule |-> "option", args |-> << name, value >>]
              /\ result' = option(name, option_value(value))
       \/ \E vs \in {<< >>} \cup {<< variable_list(v) >> : v \in VariableLists} :
              \/ /\ call' = [rule |-> "keep_option", args |-> vs]
                 /\ result' = keep_option(vs)
              \/ /\ call' = [rule |-> "drop_option", args |-> vs]
                 /\ result' = drop_option(vs)
       \/ \E ps \in {<< >>} \cup {<< PyList(p) >> : p \in RenamePairs} :
              /\ call' = [rule |-> "rename_option", args |-> ps]
              /\ result' = rename_option(ps)
    /\ pc' = "called"
    /\ RuleFrame

\* transform on a whole tree with such a rule inside
CallTransformTree ==
    /\ pc = "rules"
    /\ \E t \in NestedTrees \cup ThenTrees \cup ProcTrees :
           /\ call' = [rule |-> "transform", args |-> << t >>]
           /\ result' = transform_tree(t)
    /\ pc' = "called"
    /\ RuleFrame

\* str(option) of a DatasetOption
CallStr ==
    /\ pc = "rules"
    /\ \E opt \in Options :
           /\ call' = [rule |-> "__str__", args |-> << opt >>]
           /\ result' = PyStr(ToStr(opt))
    /\ pc' = "called"
    /\ RuleFrame

RuleNext ==
    \/ CallVariable
    \/ CallDatasetRef
    \/ CallNUMBER
    \/ CallSTRING
    \/ CallProgram
    \/ CallDataStep
    \/ CallProcStep
    \/ CallDoSimple
    \/ CallDoWhileLoop
    \/ CallDoUntilLoop
    \/ CallDoIterativeLoop
    \/ CallStr
    \/ CallExpressionRule
    \/ CallShape
    \/ CallOption
    \/ CallTransformTree

RuleSpec == RuleInit /\ [][RuleNext]_vars

(***************************************************************************)
(* Parse sessions: callers run SASParser.parse on parser instances, their  *)
(* calls interleaved line by line.                                         *)
(***************************************************************************)
\* Two callers (two threads of one program) and two instances, one of which
\* they may share
Callers == {"caller1", "caller2"}
Parsers == {"parser1", "parser2"}

\* The texts the callers pass: two programs and a text that is none
Text_data ==
    << "d", "a", "t", "a", " ", "a", ";", " ", "s", "e", "t", " ", "b", ";",
       " ", "r", "u", "n", ";" >>
Text_proc ==
    << "P", "R", "O", "C", " ", "S", "O", "R", "T", " ", "D", "A", "T", "A",
       "=", "a", ";", "\n", "R", "U", "N", ";" >>
Text_open == << "d", "a", "t", "a", " ", "a" >>
SessionTexts == {Text_data, Text_proc, Text_open}

\* SASParser.__init__: the fields of an instance.  The Lark object built
\* from the grammar is the reading it gives of each text.
SASParser ==
    [kind |-> "SASParser",
     parser |-> [kind |-> "Lark",
                 parse |-> [sas_code \in SessionTexts |-> lark_parse(sas_code)]],
     transformer |-> [kind |-> "SASTransformer"]]

\* The frame of a caller outside parse, and on entry to parse(sas_code)
IdleFrame == [self |-> "", sas_code |-> << >>, line |-> 0, tree |-> << >>]
EntryFrame(self, sas_code) ==
    [self |-> self, sas_code |-> sas_code, line |-> 40, tree |-> << >>]

\* A parse that keeps the tree in the instance between its two lines
ParseStepSharedTree(self, frame) ==
    IF frame.line = 40
    THEN LET parsed == self.parser.parse[frame.sas_code]
         IN  IF parsed.ok
             THEN [self |-> [kind |-> "SASParser", parser |-> self.parser,
                             transformer |-> self.transformer,
                             tree |-> parsed.steps],
                   frame |-> [frame EXCEPT !.line = 41],
                   ret |-> None]
             ELSE [self |-> self, frame |-> IdleFrame,
                   ret |-> Raise("SyntaxError")]
    ELSE [self |-> self, frame |-> IdleFrame, ret |-> transform(self.tree)]

\* A parse that returns what the instance returned last
ParseStepMemo(self, frame) ==
    IF frame.line = 40
    THEN LET parsed == self.parser.parse[frame.sas_code]
         IN  IF parsed.ok
             THEN [self |-> self,
                   frame |-> [frame EXCEPT !.tree = parsed.steps, !.line = 41],
                   ret |-> None]
             ELSE [self |-> self, frame |-> IdleFrame,
                   ret |-> Raise("SyntaxError")]
    ELSE LET ret == IF "memo" \in DOMAIN self THEN self.memo
                    ELSE transform(frame.tree)
         IN  [self |-> [kind |-> "SASParser", parser |-> self.parser,
                        transformer |-> self.transformer, memo |-> ret],
              frame |-> IdleFrame, ret |-> ret]

\* One line of SASParser.parse in the frame of a call: the instance and the
\* frame after it, and what the call returns or raises when the line ends it
\*   40: tree = self.parser.parse(sas_code)
\*   41: return self.transformer.transform(tree)
ParseStep(self, frame) ==
    IF frame.line = 40
    THEN LET parsed == self.parser.parse[frame.sas_code]
         IN  IF parsed.ok
             THEN [self |-> self,
                   frame |-> [frame EXCEPT !.tree = parsed.steps, !.line = 41],
                   ret |-> None]
             ELSE [self |-> self, frame |-> IdleFrame,
                   ret |-> Raise("SyntaxError")]
    ELSE [self |-> self, frame |-> IdleFrame, ret |-> transform(frame.tree)]

SessionInit ==
    /\ tree = None
    /\ ast = None
    /\ lineage = << >>
    /\ metadata = None
    /\ idx = 0
    /\ pc = "session"
    /\ call = None
    /\ result = None
    /\ parsers = [i \in Parsers |-> SASParser]
    /\ frames = [c \in Callers |-> IdleFrame]
    /\ returned = {}

SessionFrame == UNCHANGED <<tree, ast, lineage, metadata, idx, pc, rules>>

\* A caller calls parser.parse(sas_code) on one of the instances
ParseCall ==
    /\ pc = "session"
    /\ \E c \in Callers, i \in Parsers, sas_code \in SessionTexts :
           /\ frames[c].line = 0
           /\ frames' = [frames EXCEPT ![c] = EntryFrame(i, sas_code)]
    /\ UNCHANGED <<parsers, returned>>
    /\ SessionFrame

\* A call runs line 40: the text is parsed, or the call ends with the error
ParseLine40 ==
    /\ pc = "session"
    /\ \E c \in Callers :
           /\ frames[c].line = 40
           /\ \E step \in {ParseStep(parsers[frames[c].self], frames[c])} :
                  /\ parsers' = [parsers EXCEPT ![frames[c].self] = step.self]
                  /\ frames' = [frames EXCEPT ![c] = step.frame]
                  /\ returned' =
                         IF step.frame.line = 0
                         THEN returned \cup
                                  {[self |-> frames[c].self,
                                    sas_code |-> frames[c].sas_code,
                                    ret |-> step.ret]}
                         ELSE returned
    /\ SessionFrame

\* A call runs line 41 and returns
ParseLine41 ==
    /\ pc = "session"
    /\ \E c \in Callers :
           /\ frames[c].line = 41
           /\ \E step \in {ParseStep(parsers[frames[c].self], frames[c])} :
                  /\ parsers' = [parsers EXCEPT ![frames[c].self] = step.self]
                  /\ frames' = [frames EXCEPT ![c] = step.frame]
                  /\ returned' =
                         returned \cup
                             {[self |-> frames[c].self,
                               sas_code |-> frames[c].sas_code,
                               ret |-> step.ret]}
    /\ SessionFrame

SessionNext == ParseCall \/ ParseLine40 \/ ParseLine41

SessionSpec == SessionInit /\ [][SessionNext]_vars

(***************************************************************************)
(* Properties                                                              *)
(***************************************************************************)
\* The loop of extract_lineage has just visited a DATA step: `metadata` is
\* the record of statement number idx, built from subtree number idx.
Visited == pc \in {"extract", "done"} /\ idx >= 1
CurStmt == ast.statements.items[idx]
CurTree == tree[idx]
VisitedDataStep == Visited /\ CurStmt.kind = "DataStep"

IsDatasetRef(x) == x.kind = "DatasetRef"
\* The output datasets a DATA step declares, in declaration order
Declared(t) == SelectSeq(t.args, IsDatasetRef)

\* C1: a DATA step declaring outputs d1..dn (n >= 1) yields a DataStep that
\* holds all of them, and a record whose outputs are [d1, ..., dn] in
\* declaration order.
C1_AllDeclaredOutputs ==
    (VisitedDataStep /\ Declared(CurTree) # << >>) =>
        /\ \A i \in DOMAIN Declared(CurTree) :
               Declared(CurTree)[i] \in Attrs(CurStmt)
        /\ metadata.outputs = MapStr(Declared(CurTree))

\* The positions of the visited DATA steps whose primary output is named n
StepsNamed(n) ==
    { j \in 1..idx :
        /\ tree[j].rule = "data_step"
        /\ Declared(tree[j]) # << >>
        /\ ToStr(Declared(tree[j])[1]) = n }

AllPrimaryNames ==
    { ToStr(Declared(tree[j])[1]) :
        j \in { k \in 1..idx : /\ tree[k].rule = "data_step"
                               /\ Declared(tree[k]) # << >> } }

Last(S) == CHOOSE j \in S : \A k \in S : k <= j

\* C2: the map holds, under each primary output name, the record of the
\* last visited DATA step with that primary output, and nothing else.
C2_LastWriteWins ==
    pc \in {"extract", "done"} =>
        /\ DOMAIN lineage = AllPrimaryNames
        /\ \A n \in DOMAIN lineage :
               lineage[n] = extract_data_step_metadata(
                                ast.statements.items[Last(StepsNamed(n))])

\* C2 witness: two DATA steps with the same primary output and different
\* records were visited, and the map holds the record of the second.
C2_Witness ==
    /\ pc = "done"
    /\ \E n \in DOMAIN lineage : \E i, j \in StepsNamed(n) :
           /\ i < j
           /\ j = Last(StepsNamed(n))
           /\ extract_data_step_metadata(ast.statements.items[i])
                  # extract_data_step_metadata(ast.statements.items[j])
           /\ lineage[n] = extract_data_step_metadata(ast.statements.items[j])

\* C3: inputs is [the SET dataset] when the step has a SET statement, and
\* otherwise the MERGE datasets in declaration order.
C3_InputsSetElseMerge ==
    VisitedDataStep =>
        metadata.inputs =
            IF CurStmt.set_statement # None
            THEN << ToStr(CurStmt.set_statement.dataset) >>
            ELSE IF CurStmt.merge_statement # None
            THEN MapStr(CurStmt.merge_statement.datasets.items)
            ELSE << >>

\* C4: no DataStep has both set_statement and merge_statement.
C4_AtMostOneOfSetMerge ==
    pc \in {"transformed", "extract", "done"} =>
        \A stmt \in Items(ast.statements.items) :
            stmt.kind = "DataStep" =>
                ~ (stmt.set_statement # None /\ stmt.merge_statement # None)

\* A top-level statement that creates a column, and the column it creates
IsCreator(stmt) ==
    \/ stmt.kind = "Assignment"
    \/ stmt.kind = "IfStatement" /\ stmt.then_statement.kind = "Assignment"

Created(stmt) ==
    IF stmt.kind = "Assignment" THEN stmt.variable.name.s
    ELSE stmt.then_statement.variable.name.s

\* C5: columns_created lists, in encounter order and with repetitions, the
\* target of each top-level Assignment and of each Assignment that is the
\* then_statement of a top-level IfStatement.
C5_ColumnsCreated ==
    VisitedDataStep =>
        LET creators == SelectSeq(CurStmt.statements.items, IsCreator)
        IN  metadata.columns_created =
                [i \in DOMAIN creators |-> Created(creators[i])]

\* C5 witness: a column assigned twice appears twice.
C5_Witness ==
    /\ VisitedDataStep
    /\ Len(metadata.columns_created) >= 2
    /\ metadata.columns_created[1] = metadata.columns_created[2]
    /\ Len(SelectSeq(CurStmt.statements.items, IsCreator)) >= 2

\* Every Variable name read inside a value, at any depth, through the fields
\* of nodes and the items of lists and tuples; of an assignment, the
\* variables of its right-hand side
RECURSIVE AllVariables(_)
AllVariables(x) ==
    IF x.kind = "Variable" THEN {x.name.s}
    ELSE IF x.kind = "Assignment" THEN AllVariables(x.expression)
    ELSE IF x.kind \in {"list", "tuple"}
    THEN UNION { AllVariables(item) : item \in Items(x.items) }
    ELSE IF x.kind \in BuiltinKinds THEN {}
    ELSE UNION { AllVariables(v) : v \in Attrs(x) }

\* The variables C6 names as sources of columns_used
Reachable(ds) ==
    UNION (
        { AllVariables(o.value) :
            o \in (IF ds.set_statement # None
                   THEN Items(ds.set_statement.options.items) ELSE {})
                  \cup (IF ds.merge_statement # None
                        THEN Items(ds.merge_statement.options.items) ELSE {}) }
        \cup { IF ds.where_clause # None
               THEN AllVariables(ds.where_clause.condition) ELSE {} }
        \cup { IF stmt.kind = "Assignment" THEN AllVariables(stmt.expression)
               ELSE IF stmt.kind = "IfStatement"
               THEN AllVariables(stmt.condition)
                        \cup AllVariables(stmt.then_statement)
               ELSE {} : stmt \in Items(ds.statements.items) } )

\* C6: columns_used contains every variable reachable from the SET/MERGE
\* option values, the WHERE condition, the right-hand side of the top-level
\* assignments and the condition and then-branch of the top-level IFs.
C6_ColumnsUsedReachable ==
    VisitedDataStep => Reachable(CurStmt) \subseteq Items(metadata.columns_used)

\* The records extract_lineage has produced so far
Records ==
    { lineage[n] : n \in DOMAIN lineage }
        \cup (IF metadata # None THEN {metadata} ELSE {})

StrictlyAscending(xs) ==
    \A i \in 1..(Len(xs) - 1) : StrLess(xs[i], xs[i + 1])

\* The names the step's statements use, as a set: no order enters it
UsedSet(ds) ==
    (IF ds.set_statement # None
     THEN OptionVariables(ds.set_statement.options) ELSE {})
    \cup (IF ds.merge_statement # None
          THEN OptionVariables(ds.merge_statement.options) ELSE {})
    \cup (IF ds.by_statement # None
          THEN { v.name.s : v \in Items(ds.by_statement.variables.items) }
          ELSE {})
    \cup (IF ds.where_clause # None
          THEN extract_variables_from_node(ds.where_clause.condition) ELSE {})
    \cup UNION { IF stmt.kind = "Assignment"
                 THEN extract_variables_from_node(stmt.expression)
                 ELSE IF stmt.kind = "IfStatement"
                 THEN extract_variables_from_node(stmt.condition)
                        \cup extract_variables_from_node(stmt.then_statement)
                 ELSE {} : stmt \in Items(ds.statements.items) }

\* C7: columns_used of every record is strictly ascending in code point
\* order (sorted, no duplicates); it is the set of the names the step uses,
\* and the same list for every order of the step's body statements.
C7_ColumnsUsedSorted ==
    /\ \A r \in Records : StrictlyAscending(r.columns_used)
    /\ VisitedDataStep =>
           /\ Items(metadata.columns_used) = UsedSet(CurStmt)
           /\ \A p \in Permutations(DOMAIN CurStmt.statements.items) :
                  extract_data_step_metadata(
                      [CurStmt EXCEPT !.statements.items =
                          [i \in DOMAIN @ |-> @[p[i]]]]).columns_used
                    = metadata.columns_used

\* C7 witness: a record whose names were met in another order than the
\* sorted one (revenue before cost, then Zip, total, name).
C7_Witness ==
    /\ pc = "done"
    /\ VisitedDataStep
    /\ AssignProfit \in Items(CurStmt.statements.items)
    /\ IfDo \in Items(CurStmt.statements.items)
    /\ metadata.columns_used =
           << Name_Zip.s, Name_cost.s, Name_name.s, Name_revenue.s,
              Name_total.s >>
    /\ metadata \in { lineage[n] : n \in DOMAIN lineage }

\* C8: keys is the list of the BY variables in declaration order, empty
\* without a BY statement; MERGE customers accounts; BY customer_id; gives
\* keys == ["customer_id"] and inputs == ["customers", "accounts"].
C8_Keys ==
    VisitedDataStep =>
        /\ CurStmt.by_statement = None => metadata.keys = << >>
        /\ CurStmt.by_statement # None =>
               LET variables == CurStmt.by_statement.variables.items
               IN  /\ Len(metadata.keys) = Len(variables)
                   /\ \A i \in DOMAIN variables :
                          metadata.keys[i] = variables[i].name.s
        /\ ( /\ CurStmt.merge_statement = MergeCustomers
             /\ CurStmt.set_statement = None
             /\ CurStmt.by_statement = ByCustomer ) =>
               /\ metadata.keys = << Name_customer_id.s >>
               /\ metadata.inputs = << Name_customers.s, Name_accounts.s >>

\* C8 witness: the step MERGE customers accounts; BY customer_id; was
\* visited.
C8_Witness ==
    /\ VisitedDataStep
    /\ CurStmt.merge_statement = MergeCustomers
    /\ CurStmt.set_statement = None
    /\ CurStmt.by_statement = ByCustomer
    /\ metadata.keys = << Name_customer_id.s >>

\* (region = "APAC")
RegionFilter ==
    << "(", "r", "e", "g", "i", "o", "n", " ", "=", " ", "\"", "A", "P", "A",
       "C", "\"", ")" >>

\* C9: filters has at most one element: none without a WHERE clause, else
\* the rendering of the WHERE condition.
C9_Filters ==
    VisitedDataStep =>
        /\ Len(metadata.filters) <= 1
        /\ CurStmt.where_clause = None => metadata.filters = << >>
        /\ CurStmt.where_clause # None =>
               metadata.filters = << ToStr(CurStmt.where_clause.condition) >>
        /\ CurStmt.where_clause = WhereRegion =>
               metadata.filters = << RegionFilter >>

\* C9 witness: a step with a WHERE clause and an IF statement was visited.
C9_Witness ==
    /\ VisitedDataStep
    /\ CurStmt.where_clause = WhereRegion
    /\ \E stmt \in Items(CurStmt.statements.items) : stmt.kind = "IfStatement"
    /\ metadata.filters = << RegionFilter >>

IsDataStep(stmt) == stmt.kind = "DataStep"

\* C10: a ProcStep changes nothing: after any number of iterations the map
\* is the one of the visited statements with the ProcSteps removed, and
\* every key is the primary output of a visited DataStep.
C10_ProcStepsSkipped ==
    pc \in {"extract", "done"} =>
        /\ lineage = ExtractLoop(<< >>,
               SelectSeq(SubSeq(ast.statements.items, 1, idx), IsDataStep))
        /\ \A n \in DOMAIN lineage :
               \E j \in 1..idx :
                   /\ ast.statements.items[j].kind = "DataStep"
                   /\ ast.statements.items[j].output_dataset # None
                   /\ ToStr(ast.statements.items[j].output_dataset) = n

\* C10 witness: a ProcStep was visited after a DATA step had filed a record
\* and before another one.
C10_Witness ==
    /\ pc = "done"
    /\ idx >= 3
    /\ ast.statements.items[1].kind = "DataStep"
    /\ ast.statements.items[2].kind = "ProcStep"
    /\ ast.statements.items[3].kind = "DataStep"
    /\ Cardinality(DOMAIN lineage) = 2

\* The fields of a lineage record
RecordFields ==
    {"inputs", "outputs", "columns_created", "columns_used", "filters", "keys",
     "operation"}

IsList(xs) == DOMAIN xs = 1..Len(xs)

\* C11: extract_lineage runs to its return on every program of DATA and PROC
\* steps (every state before the return has a next step: the loop either
\* has a statement left to visit or returns, and the loop index stays within
\* the statements); every record has exactly the fields
\* inputs, outputs, columns_created, columns_used, filters, keys, operation,
\* the first six being lists; a step without SET and MERGE has inputs == [],
\* without BY keys == [], without WHERE filters == []; operation is
\* "data_step".
C11_TerminatesFixedShape ==
    /\ pc = "start" => ENABLED Parse
    /\ pc = "parsed" => ENABLED Transform
    /\ pc = "transformed" => ENABLED ExtractBegin
    /\ pc = "extract" =>
           ENABLED ExtractReturn \/ idx < Len(ast.statements.items)
    /\ pc \in {"extract", "done"} => idx <= Len(ast.statements.items)
    /\ pc = "done" => idx = Len(ast.statements.items)
    /\ \A r \in Records :
           /\ DOMAIN r = RecordFields
           /\ \A f \in RecordFields \ {"operation"} : IsList(r[f])
           /\ r.operation = StrDataStep
    /\ VisitedDataStep =>
           /\ (CurStmt.set_statement = None /\ CurStmt.merge_statement = None)
                  => metadata.inputs = << >>
           /\ CurStmt.by_statement = None => metadata.keys = << >>
           /\ CurStmt.where_clause = None => metadata.filters = << >>

\* C11 witness: extract_lineage returned for a program with a PROC step and
\* a DATA step that has no SET, MERGE, BY or WHERE clause; the record of
\* that step has empty inputs, keys and filters.
C11_Witness ==
    /\ pc = "done"
    /\ VisitedDataStep
    /\ \E stmt \in Items(ast.statements.items) : stmt.kind = "ProcStep"
    /\ CurStmt.set_statement = None
    /\ CurStmt.merge_statement = None
    /\ CurStmt.by_statement = None
    /\ CurStmt.where_clause = None
    /\ metadata \in { lineage[n] : n \in DOMAIN lineage }
    /\ metadata.inputs = << >>
    /\ metadata.keys = << >>
    /\ metadata.filters = << >>
    /\ metadata.operation = StrDataStep

\* The callback `rule` has returned
Called(rule) == pc = "called" /\ call.rule = rule

\* C12: whatever rule uses the dotted name, `variable` on one part returns
\* Variable(name) with that part as name, on two parts
\* DatasetRef(library = first, dataset = second); a one-part name never gives
\* a DatasetRef, a two-part name never a Variable.
C12_VariableByArity ==
    Called("variable") =>
        /\ Len(call.args) = 1 =>
               result = [kind |-> "Variable", name |-> call.args[1]]
        /\ Len(call.args) = 2 =>
               result = [kind |-> "DatasetRef", library |-> call.args[1],
                         dataset |-> call.args[2]]
        /\ Len(call.args) = 1 => result.kind # "DatasetRef"
        /\ Len(call.args) = 2 => result.kind # "Variable"

\* C12 witness: a one-part name in the dataset position of SET became a
\* Variable.
C12_Witness ==
    /\ Called("variable")
    /\ call.parent = "set_statement"
    /\ call.args = << Name_work >>
    /\ result = Variable(Name_work)

\* The options among the children of a PROC step, in encounter order: the
\* options passed directly and the items of the proc_options lists
RECURSIVE Encountered(_)
Encountered(children) ==
    IF children = << >> THEN << >>
    ELSE (IF Head(children).kind = "DatasetOption" THEN << Head(children) >>
          ELSE IF Head(children).kind = "list" THEN Head(children).items
          ELSE << >>) \o Encountered(Tail(children))

\* An option named data, in any case
IsDataOption(o) ==
    /\ o.kind = "DatasetOption"
    /\ Len(o.name.s) = 4
    /\ o.name.s[1] \in {"d", "D"}
    /\ o.name.s[2] \in {"a", "A"}
    /\ o.name.s[3] \in {"t", "T"}
    /\ o.name.s[4] \in {"a", "A"}

IsOtherOption(o) == ~ IsDataOption(o)

\* C13: proc_step removes every option named data (in any case, passed
\* directly or inside a proc_options list) from the options; the value of
\* such an option is ProcStep.dataset (of the last one when there are
\* several, None when there is none); ProcStep.options is the other options
\* in encounter order and holds no option named data.
C13_ProcDataOption ==
    Called("proc_step") =>
        LET opts == Encountered(Tail(call.args))
            data == SelectSeq(opts, IsDataOption)
        IN  /\ result.options.items = SelectSeq(opts, IsOtherOption)
            /\ \A o \in Items(result.options.items) : ~ IsDataOption(o)
            /\ data = << >> => result.dataset = None
            /\ data # << >> => result.dataset = data[Len(data)].value
            /\ Len(data) = 1 => result.dataset = data[1].value

\* C13 witness: PROC SORT with the list [obs=5, DATA=input, first=x]
\* followed by keep=name: the dataset is input and the options are obs,
\* first, keep.
C13_Witness ==
    /\ Called("proc_step")
    /\ Len(call.args) = 3
    /\ call.args[2].kind = "list"
    /\ call.args[3] = DatasetOption(Name_keep, PyList(<< Variable(Name_name) >>))
    /\ result.dataset = Ref_input
    /\ result.options.items =
           << DatasetOption(Name_obs, Num(5)),
              DatasetOption(Name_first, Variable(Name_x)),
              DatasetOption(Name_keep, PyList(<< Variable(Name_name) >>)) >>

\* The steps whose rendering the reading of texts above covers: no WHERE,
\* no body statements, no options but DATA= of a PROC step
Readable(stmt) ==
    IF stmt.kind = "DataStep"
    THEN /\ stmt.where_clause = None
         /\ stmt.statements.items = << >>
         /\ stmt.set_statement # None => stmt.set_statement.options.items = << >>
         /\ stmt.merge_statement # None =>
                stmt.merge_statement.options.items = << >>
    ELSE /\ stmt.options.items = << >>
         /\ stmt.statements.items = << >>

\* C14: round trip: for every program p the parser produces,
\* parse(str(p)) succeeds and equals p (checked on the programs whose steps
\* are readable as above: among them a PROC step named in lower case and
\* DATA steps with several declared outputs).
C14_RoundTrip ==
    ( /\ pc = "transformed"
      /\ \A stmt \in Items(ast.statements.items) : Readable(stmt) )
        => parse(ToStr(ast)) = ast

\* The statement variants that can open a loop body
StatementVariants == DataStepStatementKinds \cup {"Assignment", "IfStatement"}

\* The children that are not null, in the order received
NonNull(children) == SelectSeq(children, LAMBDA child : child.kind # "None")

\* The body children of an iterative DO: those after the variable, the start
\* and end values and, when the 4th child is no statement, the step value
IterativeBody(args) ==
    IF Len(args) > 3 /\ args[4].kind \in StatementVariants
    THEN SubSeq(args, 4, Len(args))
    ELSE SubSeq(args, 5, Len(args))

\* The children of a DATA step that are not output datasets or
\* SET/MERGE/BY/WHERE clauses
DataStepBody(args) ==
    SelectSeq(args,
        LAMBDA child : child.kind \notin {"DatasetRef", "SetStatement",
                           "MergeStatement", "ByStatement", "WhereClause"})

\* The children of a PROC step after its name that are no options
ProcStepBody(args) ==
    SelectSeq(Tail(args),
        LAMBDA child : child.kind \notin {"DatasetOption", "list"})

\* The statement lists of the rules other than do_iterative_loop keep the
\* non-null statement children in the order received
OtherListsInOrder ==
    /\ Called("program") => result.statements.items = NonNull(call.args)
    /\ Called("do_simple") => result.statements.items = NonNull(call.args)
    /\ Called("do_while_loop") =>
           result.statements.items = NonNull(Tail(call.args))
    /\ Called("do_until_loop") =>
           result.statements.items = NonNull(Tail(call.args))
    /\ Called("proc_step") =>
           result.statements.items = NonNull(ProcStepBody(call.args))
    /\ Called("data_step") =>
           result.statements.items = NonNull(DataStepBody(call.args))

\* C17: every statement list preserves encounter order: the statements of
\* Program, ProcStep, DoBlock, DoWhileLoop, DoUntilLoop and IterativeDoLoop
\* are exactly the non-null statement children in the order received, and
\* those of DataStep exactly the children that are not output datasets or
\* SET/MERGE/BY/WHERE clauses; nothing dropped, duplicated or reordered.
C17_EncounterOrder ==
    /\ OtherListsInOrder
    /\ Called("do_iterative_loop") =>
           result.statements.items = NonNull(IterativeBody(call.args))

\* C15: parse is deterministic and keeps no state between calls: any two
\* calls that were given the same text, on one instance or on two, in any
\* order, returned equal results (or both raised the same error).
C15_ParseDeterministic ==
    \A r1, r2 \in returned : r1.sas_code = r2.sas_code => r1.ret = r2.ret

\* Some text has been parsed on both instances, one of them after another
\* text, and returned a program
C15_Witness ==
    \E r1, r2, r3 \in returned :
        /\ r1.sas_code = r2.sas_code
        /\ r1.self # r2.self
        /\ r1.ret.kind = "Program"
        /\ r3.self = r1.self
        /\ r3.sas_code # r1.sas_code

\* Two calls are inside parse on the same instance, with different texts
SharedInstance ==
    /\ frames["caller1"].self = frames["caller2"].self
    /\ frames["caller1"].sas_code # frames["caller2"].sas_code

\* C16: calls interleaved on one shared SASParser: each call returns what it
\* would return alone, and no field of the parser is ever written.
C16_InterleavedCalls ==
    /\ pc = "session" => \A i \in Parsers : parsers[i] = SASParser
    /\ \A r \in returned : r.ret = parse(r.sas_code)

\* One call is between its two lines while the other, on the same instance
\* with another text, has run its first line too
C16_Witness ==
    /\ pc = "session"
    /\ SharedInstance
    /\ frames["caller1"].line = 41
    /\ frames["caller2"].line = 41

\* C20: in do_iterative_loop the 4th child becomes by_value if and only if
\* it is not a statement node: when it is any statement variant (Assignment,
\* IfStatement, KEEP, DROP, RENAME, INPUT, PUT, INFILE, FILE, FORMAT,
\* INFORMAT, LABEL, the four DO forms, OUTPUT, RETAIN, LENGTH, STOP, DELETE)
\* by_value stays None and the child is the first element of statements.
C20_ByValueIffNotStatement ==
    (Called("do_iterative_loop") /\ Len(call.args) > 3) =>
        IF call.args[4].kind \in StatementVariants
        THEN /\ result.by_value = None
             /\ result.statements.items # << >>
             /\ result.statements.items[1] = call.args[4]
        ELSE result.by_value = call.args[4]

\* The value of a numeral without sign: its digits by their places
RECURSIVE PlaceValue(_, _)
PlaceValue(cs, i) ==
    IF i > Len(cs) THEN 0
    ELSE (CHOOSE d \in 0..9 : Digits[d + 1] = cs[i]) * Pow10(Len(cs) - i)
             + PlaceValue(cs, i + 1)

\* C18: a NUMBER token becomes a number Literal holding an int iff its text
\* has no decimal point and a float otherwise, with the value of the numeral
\* ("100" gives int 100, "1.0" gives float 1.0); a STRING token becomes a
\* string Literal whose value is the text with exactly its first and its
\* last character removed and no other change.
C18_LiteralTyping ==
    /\ Called("NUMBER") =>
           LET text == call.args[1].s
               dots == {i \in DOMAIN text : text[i] = "."}
               digits == SelectSeq(text, LAMBDA c : c # ".")
           IN  /\ result.kind = "Literal"
               /\ result.data_type = PyStr(StrNumber)
               /\ result.value.kind = "int" <=> dots = {}
               /\ result.value.kind = "float" <=> dots # {}
               /\ dots = {} => result.value.n = PlaceValue(text, 1)
               /\ dots # {} =>
                      /\ LET scale == Pow10(Len(text) - (CHOOSE i \in dots : TRUE))
                         IN  /\ scale % result.value.den = 0
                             /\ result.value.num * (scale \div result.value.den)
                                    = PlaceValue(digits, 1)
                      /\ Gcd(result.value.num, result.value.den) = 1
               /\ text = << "1", "0", "0" >> => result.value = PyInt(100)
               /\ text = << "1", ".", "0" >> => result.value = PyFloat(1, 1)
    /\ Called("STRING") =>
           LET text == call.args[1].s
           IN  /\ result.kind = "Literal"
               /\ result.data_type = PyStr(StrString)
               /\ result.value.kind = "str"
               /\ Len(result.value.s) = Len(text) - 2
               /\ \A i \in DOMAIN result.value.s : result.value.s[i] = text[i + 1]

\* NUMBER has been called on "1.0"
C18_Witness ==
    /\ Called("NUMBER")
    /\ call.args[1].s = << "1", ".", "0" >>
    /\ result.value = PyFloat(1, 1)

\* The texts one after the other, a blank between two of them
RECURSIVE Spaced(_)
Spaced(texts) ==
    IF texts = << >> THEN << >>
    ELSE IF Len(texts) = 1 THEN texts[1]
    ELSE Spaced(SubSeq(texts, 1, Len(texts) - 1)) \o << " " >> \o texts[Len(texts)]

\* C19: str of a DatasetOption dispatches on its name whatever its case:
\* keep or drop with a variable list [a, b] renders `<name>=a b`, rename with
\* pairs [(x, y), ...] renders `<name>=(x=y ...)`, any other name renders
\* `<name>=<rendering of the single value>`; the name is rendered as written.
C19_OptionRendering ==
    Called("__str__") =>
        LET opt == call.args[1]
            name == Lower(opt.name.s)
            items == opt.value.items
        IN  IF name \in {Name_keep.s, Name_drop.s} /\ opt.value.kind = "list"
            THEN result.s = opt.name.s \o << "=" >>
                     \o Spaced([i \in DOMAIN items |-> items[i].name.s])
            ELSE IF name = Name_rename.s /\ opt.value.kind = "list"
            THEN result.s = opt.name.s \o << "=", "(" >>
                     \o Spaced([i \in DOMAIN items |->
                                   items[i].items[1].name.s \o << "=" >>
                                       \o items[i].items[2].name.s])
                     \o << ")" >>
            ELSE name \notin {Name_keep.s, Name_drop.s, Name_rename.s} =>
                     result.s = opt.name.s \o << "=" >> \o ToStr(opt.value)

\* str has been taken of KEEP=a b and has kept the name as written
C19_Witness ==
    /\ Called("__str__")
    /\ call.args[1].name = Name_KEEP
    /\ Len(call.args[1].value.items) = 2
    /\ result.s = << "K", "E", "E", "P", "=", "a", " ", "b" >>

\* The expression variants a BY clause can hold
ExpressionVariants == {"Literal", "Variable", "BinaryOperation"}

RECURSIVE HasOddShape(_)
HasOddShape(t) ==
    /\ t.kind = "Tree"
    /\ \/ t.data \in ExpressionRules /\ Len(t.children) \notin {1, 3}
       \/ \E i \in DOMAIN t.children : HasOddShape(t.children[i])

\* C22: condition, expression and term accept exactly 1 or 3 children: one
\* child is wrapped (condition) or passed through, three build
\* BinaryOperation(left, operator, right); any other number fails with an
\* error and returns no node, and the transform call around it returns no
\* partial AST.
C22_OneOrThreeChildren ==
    /\ (pc = "called" /\ call.rule \in ExpressionRules) =>
           LET args == call.args
               value == IF Len(args) = 1 THEN args[1]
                        ELSE BinaryOperation(args[1], args[2], args[3])
           IN  IF Len(args) \in {1, 3}
               THEN result = IF call.rule = "condition" THEN Condition(value)
                              ELSE value
               ELSE result.kind = "Raise"
    /\ Called("transform") =>
           IF HasOddShape(call.args[1])
           THEN result.kind = "Raise"
           ELSE result.kind = "Program"

\* transform has been called on a tree with a condition of two children
\* inside and has raised
C22_Witness ==
    /\ Called("transform")
    /\ result = Raise("ValueError")
    /\ Len(call.args[1].children[1].children) = 3
    /\ call.args[1].children[1].children[3].kind = "Tree"
    /\ \E children \in ExpressionChildren :
           /\ Len(children) = 2
           /\ call.args[1].children[1].children[3].children[1] =
                  Tree("condition", children)

\* The numbers of children each rule of fixed shape is written for
ShapeOf(rule) ==
    CASE rule \in {"variable", "dataset_ref"} -> {1, 2}
      [] rule \in {"output_statement", "statement", "do_block"} -> {0, 1}
      [] rule = "if_statement" -> {2}
      [] rule = "factor" -> {1}

\* C23: a rule called with a number of children outside the ones it is
\* defined for fails with an error instead of returning a node: variable
\* and dataset_ref with 3 or more parts, output_statement with 2 or more
\* children, if_statement with more than 2, factor, statement and do_block
\* with more than 1 never build a node from only some of their children.
C23_UnexpectedShapeFails ==
    ( /\ pc = "called"
      /\ call \in ShapeCalls
      /\ Len(call.args) \notin ShapeOf(call.rule) )
        => result.kind = "Raise"

\* The rules that build a DatasetOption
OptionRules == {"option", "keep_option", "drop_option", "rename_option"}

\* C24: every DatasetOption a rule builds has the value shape its name
\* decides, whatever the case of the name: keep or drop a list of Variable,
\* rename a list of (Variable, Variable) pairs, any other name one single
\* node; for the generic option rule as for keep_option, drop_option and
\* rename_option.
C24_ValueShapeByName ==
    (pc = "called" /\ call.rule \in OptionRules) =>
        /\ result.kind = "DatasetOption"
        /\ LET name == Lower(result.name.s)
               value == result.value
           IN  IF name \in {Name_keep.s, Name_drop.s}
               THEN /\ value.kind = "list"
                    /\ \A i \in DOMAIN value.items :
                           value.items[i].kind = "Variable"
               ELSE IF name = Name_rename.s
               THEN /\ value.kind = "list"
                    /\ \A i \in DOMAIN value.items :
                           /\ value.items[i].kind = "tuple"
                           /\ Len(value.items[i].items) = 2
                           /\ \A j \in 1..2 :
                                  value.items[i].items[j].kind = "Variable"
               ELSE value.kind \notin {"list", "tuple"}

\* The lines of a text
Lines(text) ==
    IF text = << >> THEN << >>
    ELSE SplitAt(text \o NL,
                 SelectSeq([i \in 1..(Len(text) + 1) |-> i],
                           LAMBDA i : (text \o NL)[i] = "\n")).parts

\* The number of blanks a line starts with
LeadingSpaces(line) ==
    Cardinality({i \in DOMAIN line : \A j \in 1..i : line[j] = " "})

BlockVariants == {"DoBlock", "DoWhileLoop", "DoUntilLoop", "IterativeDoLoop"}
BlankLine == 0 - 1

\* The nesting depth of each line of a node that starts at depth d, in
\* order: a step, a DO block or a loop opens and closes at d and holds its
\* statements at d + 1; an IF starts on the line of its THEN statement
RECURSIVE LineDepths(_, _)
LineDepths(x, d) ==
    LET Body(stmts) == Join(<< >>, [i \in DOMAIN stmts |-> LineDepths(stmts[i], d + 1)])
        Clause(c) == IF Truthy(c) THEN << d + 1 >> ELSE << >>
    IN  CASE x.kind \in BlockVariants ->
                 << d >> \o Body(x.statements.items) \o << d >>
          [] x.kind = "IfStatement" -> LineDepths(x.then_statement, d)
          [] x.kind = "DataStep" ->
                 << d >> \o Clause(x.set_statement) \o Clause(x.merge_statement)
                     \o Clause(x.by_statement) \o Clause(x.where_clause)
                     \o Body(x.statements.items) \o << d >>
          [] x.kind = "ProcStep" ->
                 << d >> \o Body(x.statements.items) \o << d >>
          [] x.kind = "Program" ->
                 Join(<< BlankLine >>,
                      [i \in DOMAIN x.statements.items |->
                          LineDepths(x.statements.items[i], 0)])
          [] OTHER -> << d >>

\* C25: in the rendering of a Program every line of a statement nested at
\* depth d (the number of enclosing steps, DO blocks and loops) starts with
\* exactly 2*d blanks: a statement inside a DO block inside a DATA step has
\* 4, that block's END; has 2; and exactly one empty line stands between two
\* top-level steps.
C25_Indentation ==
    pc = "transformed" =>
        LET lines == Lines(ToStr(ast))
            depths == LineDepths(ast, 0)
        IN  /\ Len(lines) = Len(depths)
            /\ \A i \in DOMAIN lines :
                   IF depths[i] = BlankLine THEN lines[i] = << >>
                   ELSE LeadingSpaces(lines[i]) = 2 * depths[i]

\* The ordinary rule of each form of a THEN action
Ordinary(data) ==
    CASE data = "assignment_no_semicolon" -> "assignment"
      [] data = "output_no_semicolon" -> "output_statement"
      [] data = "stop_no_semicolon" -> "stop_statement"
      [] data = "delete_no_semicolon" -> "delete_statement"
      [] OTHER -> data

ThenVariants ==
    {"Assignment", "OutputStatement", "StopStatement", "DeleteStatement"}
        \cup BlockVariants

\* C26: the forms of a THEN clause collapse to the ordinary variants: for
\* the same children assignment_no_semicolon, output_no_semicolon,
\* stop_no_semicolon and delete_no_semicolon give a node equal to the one of
\* assignment, output_statement, stop_statement and delete_statement, and
\* if_statement stores that node unchanged as then_statement, never a
\* wrapper.
C26_ThenFormsCollapse ==
    /\ (Called("transform") /\ call.args[1] \in ThenTrees) =>
           LET clause == call.args[1].children[1].children[2].children[2]
               action == clause.children[1]
               node == result.statements.items[1].statements.items[1]
           IN  /\ node.kind = "IfStatement"
               /\ node.then_statement.kind \in ThenVariants
               /\ node.then_statement =
                      transform_tree(Tree(Ordinary(action.data), action.children))
    /\ (Called("if_statement") /\ Len(call.args) = 2) =>
           /\ result.kind = "IfStatement"
           /\ result.then_statement = call.args[2]

\* IF Zip THEN OUTPUT b (no semicolon) has been transformed and the IF holds
\* the OutputStatement of b
C26_Witness ==
    /\ Called("transform")
    /\ call.args[1] \in ThenTrees
    /\ call.args[1].children[1].children[2].children[2] =
           Tree("then_action_no_semicolon",
                << Tree("output_no_semicolon", << Ref_b >>) >>)
    /\ result.statements.items[1].statements.items[1] =
           IfStatement(Condition(Variable(Name_Zip)), OutputStatement(Ref_b))

\* The body statements the extractor has a branch for
Contributes(stmt) == stmt.kind \in {"Assignment", "IfStatement"}

\* C27: only the top-level Assignment and IfStatement nodes of a DataStep
\* body contribute to its record: any other top-level variant (DO block, DO
\* loop, KEEP, DROP, RENAME, ...) adds nothing to columns_created or
\* columns_used whatever it contains, and an Assignment nested in a DO block
\* or loop, the then-branch of a top-level IF included, never adds its
\* target to columns_created.
C27_OnlyTopLevelContribute ==
    VisitedDataStep =>
        LET body == CurStmt.statements.items
            without == [CurStmt EXCEPT
                           !.statements = PyList(SelectSeq(body, Contributes))]
        IN  /\ metadata = extract_data_step_metadata(without)
            /\ Items(metadata.columns_created)
                   = {Created(body[i]) : i \in {j \in DOMAIN body : IsCreator(body[j])}}

\* A step with a DO WHILE loop, an iterative DO, RENAME and DROP before one
\* assignment has been visited: only the assignment is in the record
C27_Witness ==
    /\ VisitedDataStep
    /\ \E i \in DOMAIN CurStmt.statements.items :
           CurStmt.statements.items[i].kind = "DoWhileLoop"
    /\ metadata.columns_created = << Name_profit.s >>
    /\ metadata.columns_used = << Name_cost.s, Name_revenue.s >>

\* The DATA steps with an output dataset among the first n statements
NamedSteps(n) ==
    {j \in 1..n : /\ ast.statements.items[j].kind = "DataStep"
                  /\ ast.statements.items[j].output_dataset # None}

\* The iteration that visits a DATA step without output dataset
VisitsUnnamedStep ==
    /\ pc = "extract"
    /\ idx' = idx + 1
    /\ ast.statements.items[idx'].kind = "DataStep"
    /\ ast.statements.items[idx'].output_dataset = None

\* C28: a DataStep without output dataset (DATA;) produces no entry: the
\* map built so far is left unchanged by its iteration, the map never has
\* more entries than there are visited DataSteps with an output dataset, and
\* every key is the first element of the outputs of its own record.
C28_NoOutputNoEntry ==
    /\ [][VisitsUnnamedStep => lineage' = lineage]_vars
    /\ [](pc \in {"extract", "done"} =>
             /\ Cardinality(DOMAIN lineage) <= Cardinality(NamedSteps(idx))
             /\ \A n \in DOMAIN lineage :
                    /\ lineage[n].outputs # << >>
                    /\ lineage[n].outputs[1] = n)

\* A step without output dataset has been visited after one that filed a
\* record, and the map still holds that one entry only
C28_Witness ==
    /\ pc = "done"
    /\ idx = 2
    /\ NamedSteps(idx) = {1}
    /\ ast.statements.items[2].kind = "DataStep"
    /\ DOMAIN lineage = {ToStr(ast.statements.items[1].output_dataset)}

\* The last child of a class among the children of a data_step, None when
\* there is none
LastOf(args, class) ==
    LET of == {j \in DOMAIN args : args[j].kind = class}
    IN  IF of = {} THEN None ELSE args[Last(of)]

ClauseClasses == {"SetStatement", "MergeStatement", "ByStatement", "WhereClause"}

\* C29: of several children of one clause kind (two SET, two MERGE, two BY
\* or two WHERE) data_step keeps the last in the DataStep; the earlier ones
\* are nowhere in the AST, neither in the clause field nor in statements;
\* and the inputs, keys and filters of the record are those of the last
\* clause of each kind.
C29_LastClauseWins ==
    /\ pc \in {"transformed", "extract", "done"} =>
           \A i \in DOMAIN ast.statements.items :
               LET step == ast.statements.items[i]
                   args == tree[i].args
               IN  step.kind = "DataStep" =>
                       /\ step.set_statement = LastOf(args, "SetStatement")
                       /\ step.merge_statement = LastOf(args, "MergeStatement")
                       /\ step.by_statement = LastOf(args, "ByStatement")
                       /\ step.where_clause = LastOf(args, "WhereClause")
                       /\ \A stmt \in Items(step.statements.items) :
                              stmt.kind \notin ClauseClasses
    /\ VisitedDataStep =>
           LET set == LastOf(CurTree.args, "SetStatement")
               merge == LastOf(CurTree.args, "MergeStatement")
               by == LastOf(CurTree.args, "ByStatement")
               where == LastOf(CurTree.args, "WhereClause")
           IN  /\ metadata.inputs =
                      (IF set = None THEN << >> ELSE << ToStr(set.dataset) >>)
                          \o (IF merge = None THEN << >>
                              ELSE [k \in DOMAIN merge.datasets.items |->
                                       ToStr(merge.datasets.items[k])])
               /\ metadata.keys =
                      IF by = None THEN << >>
                      ELSE [k \in DOMAIN by.variables.items |->
                               by.variables.items[k].name.s]
               /\ metadata.filters =
                      IF where = None THEN << >>
                      ELSE << ToStr(where.condition) >>

\* DATA a; WHERE region = "APAC"; WHERE profit > 1000; RUN; has been
\* visited: the step and the record hold the second WHERE only
C29_Witness ==
    /\ VisitedDataStep
    /\ Len(CurTree.args) = 3
    /\ CurTree.args[2] = WhereRegion
    /\ CurTree.args[3].kind = "WhereClause"
    /\ CurTree.args[3] # WhereRegion
    /\ CurStmt.where_clause = CurTree.args[3]
    /\ metadata.filters = << ToStr(CurTree.args[3].condition) >>
    /\ Len(metadata.filters[1]) > 0

\* C30: ProcStep.dataset is absent or a DatasetRef: the value of data= is a
\* DatasetRef, not a Variable, also when the name has one part (PROC PRINT
\* DATA=sales;), and of several data options the last one is used.
C30_ProcDatasetIsRef ==
    (Called("transform") /\ call.args[1] \in ProcTrees) =>
        LET options == call.args[1].children[1].children[2].children
            step == result.statements.items[1]
        IN  /\ step.kind = "ProcStep"
            /\ step.dataset = None \/ step.dataset.kind = "DatasetRef"
            /\ options = << >> => step.dataset = None
            /\ options # << >> =>
                   step.dataset =
                       dataset_ref(options[Len(options)].children[2].children[1].children)

====
